---- MODULE Spec2Model ----
(***************************************************************************)
(* Model of pyxu.operator.linop.spread.UniformSpread: construction         *)
(* (argument validation, _build_info), apply (spread) and adjoint          *)
(* (interpolate), in memory (NUMPY: a bounded thread pool over the cached  *)
(* cluster map) and chunked (DASK: one transient sub-operator per pair of  *)
(* point chunk and lattice chunk), the precision cast of the inputs, and   *)
(* asarray.                                                                *)
(*                                                                         *)
(* Arithmetic is exact.  Coordinates (points, lattice start/stop, kernel   *)
(* supports) are integers in a common fine unit; the lattices drawn as     *)
(* inputs with num > 1 have (stop - start) a multiple of (num - 1), so the *)
(* lattice step is an integer number of units.  Any rational configuration *)
(* can be brought to this form by rescaling.                               *)
(*                                                                         *)
(* Lattice indices are 0-based as in the source; axes d and point indices  *)
(* m are 1-based (positions of TLA+ sequences).                            *)
(***************************************************************************)
EXTENDS Integers, Sequences, FiniteSets, TLC

VARIABLES
    args,        \* constructor arguments (x, z, kernel, kwargs), canonical form
    phase,       \* "new" | "failed" | "ready" | "apply" | "adjoint" | "dask_apply" |
                 \* "dask_adjoint" | "dense"; "kernel" | "bounds" | "spread" |
                 \* "interpolate" when a compiled kernel is run on its own
    cl_info,     \* self._cl_info: sequence of cluster records (key q = position)
    arr,         \* input array of the call in progress (w or v)
    out,         \* output buffer allocated by the call in progress
    lock,        \* threading.Lock of the apply call: 0 = free, q = held by task q
    queue,       \* executor work queue: cluster keys submitted and not yet started
    pc,          \* position of every cluster task of the call in progress
    loc,         \* per-task local buffer (sub-lattice v / local weights w)
    order,       \* cluster keys in the order their results were written to out
    res_apply,   \* last value returned by apply, with its input
    res_adjoint, \* last value returned by adjoint, with its input
    env,         \* backend / precision of self._x, self._enable_warnings, the caller's dtypes
    warned,      \* warnings emitted so far (warnings.warn), oldest first
    exc,         \* exception raised to the caller by the last call, "none" if it returned
    dask,        \* chunked (DASK) call in progress: chunk layout and blocks computed so far
    calls,       \* concurrent callers of one in-memory operator: one record per caller
    heap,        \* buffers and locks allocated by the concurrent callers
    res_asarray  \* last value returned by asarray

auxvars == <<warned, exc, dask, calls, heap, res_asarray>>
noncallvars == <<warned, exc, dask, heap, res_asarray>>

vars == <<args, phase, cl_info, arr, out, lock, queue, pc, loc, order, res_apply, res_adjoint,
          env, auxvars>>

-----------------------------------------------------------------------------
(* Generic helpers *)

Abs(a) == IF a < 0 THEN -a ELSE a

\* floor(a / b) and ceil(a / b) for b > 0
FloorDiv(a, b) == a \div b
CeilDiv(a, b) == -((-a) \div b)

Min2(a, b) == IF a <= b THEN a ELSE b
Max2(a, b) == IF a >= b THEN a ELSE b

SetMin(S) == CHOOSE a \in S : \A b \in S : a <= b
SetMax(S) == CHOOSE a \in S : \A b \in S : a >= b

Range(f) == {f[i] : i \in DOMAIN f}

RECURSIVE SumSeq(_)
SumSeq(s) == IF s = <<>> THEN 0 ELSE Head(s) + SumSeq(Tail(s))

RECURSIVE SumOver(_, _)
\* sum of f[e] for e in the finite set S
SumOver(S, f) ==
    IF S = {} THEN 0
    ELSE LET e == CHOOSE e \in S : TRUE IN f[e] + SumOver(S \ {e}, f)

RECURSIVE ProdSeq(_)
ProdSeq(s) == IF s = <<>> THEN 1 ELSE Head(s) * ProdSeq(Tail(s))

\* D-tuples t with lo[d] <= t[d] <= hi[d] on every axis
RECURSIVE BoxUpTo(_, _, _)
BoxUpTo(lo, hi, d) ==
    IF d = 0 THEN {<<>>}
    ELSE {Append(t, i) : t \in BoxUpTo(lo, hi, d - 1), i \in lo[d]..hi[d]}

Box(lo, hi) == BoxUpTo(lo, hi, Len(lo))

-----------------------------------------------------------------------------
(* Axis kernels: k = [kind, s]; support() returns s, __call__ is Phi.       *)
(*   box   : 1 on [-s, s]                                                  *)
(*   tri   : s - |t| on [-s, s]                                            *)
(*   asym  : 1 on [-s, 0), 2 on [0, s]   (symmetric support, not symmetric *)
(*           values)                                                       *)
(*   leaky : 1 on [-s-1, s+1]: non-zero outside its declared support       *)

Support(k) == k.s

Phi(k, t) ==
    CASE k.kind = "box"   -> IF Abs(t) <= k.s THEN 1 ELSE 0
      [] k.kind = "tri"   -> IF Abs(t) <= k.s THEN k.s - Abs(t) ELSE 0
      [] k.kind = "asym"  -> IF -k.s <= t /\ t < 0 THEN 1
                             ELSE IF 0 <= t /\ t <= k.s THEN 2 ELSE 0
      [] k.kind = "leaky" -> IF Abs(t) <= k.s + 1 THEN 1 ELSE 0

\* the kernel honours its declared support: zero outside [-s, s]
Compact(k) == k.kind # "leaky"

-----------------------------------------------------------------------------
(* __init__: canonical form and validation *)

Rank(a) == Len(a.num)
Axes(a) == 1..Rank(a)
NPoints(a) == Len(a.x)

KernelOK(a) == \A d \in Axes(a) : Support(a.kernel[d]) > 0

LatticeOK(a) ==
    \A d \in Axes(a) :
        /\ a.start[d] <= a.stop[d]
        /\ IF a.start[d] < a.stop[d] THEN a.num[d] >= 1 ELSE a.num[d] = 1

\* variant: the window-ratio threshold is only required to be positive
KwargsOK_WeakRatio(a) == a.max_cluster_size > 0 /\ a.max_window_ratio > 0

KwargsOK(a) == a.max_cluster_size > 0 /\ a.max_window_ratio >= 3

InitOK(a) == KernelOK(a) /\ LatticeOK(a) /\ KwargsOK(a)

-----------------------------------------------------------------------------
(* _lattice: node coordinates of axis d *)

Step(z, d) == IF z.num[d] = 1 THEN 0 ELSE (z.stop[d] - z.start[d]) \div (z.num[d] - 1)

Node(z, d, n) == z.start[d] + n * Step(z, d)

\* all lattice multi-indices (codim_shape)
Nodes(z) == Box([d \in 1..Len(z.num) |-> 0], [d \in 1..Len(z.num) |-> z.num[d] - 1])

-----------------------------------------------------------------------------
(* pyxu.math.cluster: grid_cluster / bisect_cluster.                        *)
(* Clusters are sequences of 1-based positions into the point sequence xs.  *)

\* increasing sequence of the elements of a finite set of integers
RECURSIVE SeqOfSet(_)
SeqOfSet(S) == IF S = {} THEN <<>> ELSE <<SetMin(S)>> \o SeqOfSet(S \ {SetMin(S)})

\* grid cell of point p: cells of size bbox_dim[d], anchored at the lower corner
\* of the point cloud
GridCell(xs, bbox_dim, p) ==
    [d \in 1..Len(bbox_dim) |->
        FloorDiv(p[d] - SetMin({xs[i][d] : i \in 1..Len(xs)}), bbox_dim[d])]

\* one cluster per non-empty cell, in order of first appearance
grid_cluster(xs, bbox_dim) ==
    LET cell(i) == GridCell(xs, bbox_dim, xs[i])
        first == {i \in 1..Len(xs) : \A j \in 1..(i - 1) : cell(j) # cell(i)}
        fs == SeqOfSet(first)
    IN [k \in 1..Len(fs) |->
          SeqOfSet({i \in 1..Len(xs) : cell(i) = cell(fs[k])})]

\* axis of largest spread of cluster c (first one on ties)
LongestAxis(xs, c) ==
    LET D == Len(xs[c[1]])
        spread(d) == SetMax({xs[c[j]][d] : j \in 1..Len(c)})
                   - SetMin({xs[c[j]][d] : j \in 1..Len(c)})
    IN SetMin({d \in 1..D : \A e \in 1..D : spread(d) >= spread(e)})

\* members of S ordered by coordinate on axis d, ties by position
RECURSIVE SortByAxis(_, _, _)
SortByAxis(xs, d, S) ==
    IF S = {} THEN <<>>
    ELSE LET i == CHOOSE i \in S : \A j \in S :
                      \/ xs[i][d] < xs[j][d]
                      \/ (xs[i][d] = xs[j][d] /\ i <= j)
         IN <<i>> \o SortByAxis(xs, d, S \ {i})

\* split at the median along the longest axis: lower half, upper half
MedianSplit(xs, c) ==
    LET d == LongestAxis(xs, c)
        o == SortByAxis(xs, d, Range(c))
        h == Len(o) \div 2
    IN <<SubSeq(o, 1, h), SubSeq(o, h + 1, Len(o))>>

RECURSIVE BisectLoop(_, _, _, _)
BisectLoop(xs, todo, done, N_max) ==
    IF todo = <<>> THEN done
    ELSE IF Len(Head(todo)) <= N_max
         THEN BisectLoop(xs, Tail(todo), Append(done, Head(todo)), N_max)
         ELSE BisectLoop(xs, MedianSplit(xs, Head(todo)) \o Tail(todo), done, N_max)

bisect_cluster(xs, clusters, N_max) == BisectLoop(xs, clusters, <<>>, N_max)

\* number of splits the bisection performs on the clusters of todo, counted up to
\* fuel: a bisection still splitting after fuel splits yields more than fuel
RECURSIVE BisectSplits(_, _, _, _)
BisectSplits(xs, todo, N_max, fuel) ==
    IF todo = <<>> THEN 0
    ELSE IF Len(Head(todo)) <= N_max THEN BisectSplits(xs, Tail(todo), N_max, fuel)
    ELSE IF fuel = 0 THEN 1
    ELSE 1 + BisectSplits(xs, MedianSplit(xs, Head(todo)) \o Tail(todo), N_max, fuel - 1)

-----------------------------------------------------------------------------
(* _build_info *)

\* variant: culling against the lattice bounding box itself, support forgotten
Active_NoSupport(a, m) ==
    \A d \in Axes(a) : a.start[d] <= a.x[m][d] /\ a.x[m][d] <= a.stop[d]

\* variant: culling with the support diameter 2s instead of the radius s
Active_WideSupport(a, m) ==
    \A d \in Axes(a) :
        /\ a.start[d] - 2 * Support(a.kernel[d]) <= a.x[m][d]
        /\ a.x[m][d] <= a.stop[d] + 2 * Support(a.kernel[d])

\* variant: the upper-bound half of the test is missing
Active_LowerOnly(a, m) ==
    \A d \in Axes(a) : a.start[d] - Support(a.kernel[d]) <= a.x[m][d]

\* variant: strict comparisons, points on the border of the padded box are culled
Active_Strict(a, m) ==
    \A d \in Axes(a) :
        /\ a.start[d] - Support(a.kernel[d]) < a.x[m][d]
        /\ a.x[m][d] < a.stop[d] + Support(a.kernel[d])

\* line 493: the point contributes to the lattice
Active(a, m) ==
    \A d \in Axes(a) :
        /\ a.start[d] - Support(a.kernel[d]) <= a.x[m][d]
        /\ a.x[m][d] <= a.stop[d] + Support(a.kernel[d])

\* np.flatnonzero(active)
active2global(a) == SeqOfSet({m \in 1..NPoints(a) : Active(a, m)})

\* x[active]
ActiveX(a, a2g) == [i \in 1..Len(a2g) |-> a.x[a2g[i]]]

\* variant: the bisection pass is missing
Clusters_NoBisect(a, xs) ==
    grid_cluster(xs, [d \in Axes(a) |-> (2 * Support(a.kernel[d])) * a.max_window_ratio])

\* variant: every oversized grid cluster is split once, its halves are kept as
\* they are
Clusters_OneSplit(a, xs) ==
    LET bbox_dim == [d \in Axes(a) |-> (2 * Support(a.kernel[d])) * a.max_window_ratio]
        g == grid_cluster(xs, bbox_dim)
        halves(c) == IF Len(c) <= a.max_cluster_size THEN <<c>> ELSE MedianSplit(xs, c)
        cat[k \in 0..Len(g)] == IF k = 0 THEN <<>> ELSE cat[k - 1] \o halves(g[k])
    IN cat[Len(g)]

\* lines 501-508: grid bucketing, then bisection down to max_cluster_size
Clusters(a, xs) ==
    LET bbox_dim == [d \in Axes(a) |-> (2 * Support(a.kernel[d])) * a.max_window_ratio]
    IN bisect_cluster(xs, grid_cluster(xs, bbox_dim), a.max_cluster_size)

\* variant: lower-left corner taken at the points themselves, support forgotten
LL_idx_NoSupport(a, xq, d) ==
    LET LL == SetMin({xq[j][d] : j \in 1..Len(xq)})
        raw == IF a.num[d] > 1
               THEN FloorDiv((LL - a.start[d]) * (a.num[d] - 1), a.stop[d] - a.start[d])
               ELSE 0
    IN Max2(0, raw)

\* variant: the lower-left index is not clipped to the lattice
LL_idx_NoClip(a, xq, d) ==
    LET LL == SetMin({xq[j][d] : j \in 1..Len(xq)}) - Support(a.kernel[d])
    IN IF a.num[d] > 1
       THEN FloorDiv((LL - a.start[d]) * (a.num[d] - 1), a.stop[d] - a.start[d])
       ELSE 0

\* lines 513-528: clipped grid indices of the cluster's lower-left / upper-right
LL_idx(a, xq, d) ==
    LET LL == SetMin({xq[j][d] : j \in 1..Len(xq)}) - Support(a.kernel[d])
        raw == IF a.num[d] > 1
               THEN FloorDiv((LL - a.start[d]) * (a.num[d] - 1), a.stop[d] - a.start[d])
               ELSE 0
    IN Max2(0, raw)

\* variant: the upper-right index rounded down instead of up
UR_idx_Floor(a, xq, d) ==
    LET UR == SetMax({xq[j][d] : j \in 1..Len(xq)}) + Support(a.kernel[d])
        raw == IF a.num[d] > 1
               THEN FloorDiv((UR - a.start[d]) * (a.num[d] - 1), a.stop[d] - a.start[d])
               ELSE 0
    IN Min2(raw, a.num[d] - 1)

UR_idx(a, xq, d) ==
    LET UR == SetMax({xq[j][d] : j \in 1..Len(xq)}) + Support(a.kernel[d])
        raw == IF a.num[d] > 1
               THEN CeilDiv((UR - a.start[d]) * (a.num[d] - 1), a.stop[d] - a.start[d])
               ELSE 0
    IN Min2(raw, a.num[d] - 1)

\* variant: indices left relative to x[active]
GlobalIdx_Local(a2g, c) == c

\* line 530: cluster members as indices w.r.t. the input x
GlobalIdx(a2g, c) == [j \in 1..Len(c) |-> a2g[c[j]]]

\* variant: window extent UR_idx - LL_idx, one node short
ClusterInfo_NoPlusOne(a, a2g, xs, c) ==
    LET xq == [j \in 1..Len(c) |-> xs[c[j]]]
        ll == [d \in Axes(a) |-> LL_idx(a, xq, d)]
        ur == [d \in Axes(a) |-> UR_idx(a, xq, d)]
    IN [x_idx    |-> GlobalIdx(a2g, c),
        z_anchor |-> ll,
        z_num    |-> [d \in Axes(a) |-> ur[d] - ll[d]]]

\* lines 512-537: metadata of one cluster c (positions into xs = x[active])
ClusterInfo(a, a2g, xs, c) ==
    LET xq == [j \in 1..Len(c) |-> xs[c[j]]]
        ll == [d \in Axes(a) |-> LL_idx(a, xq, d)]
        ur == [d \in Axes(a) |-> UR_idx(a, xq, d)]
    IN [x_idx    |-> GlobalIdx(a2g, c),
        z_anchor |-> ll,
        z_num    |-> [d \in Axes(a) |-> ur[d] - ll[d] + 1]]

_build_info(a) ==
    LET a2g == active2global(a)
        xs == ActiveX(a, a2g)
    IN IF Len(xs) = 0 THEN <<>>
       ELSE LET cl == Clusters(a, xs)
            IN [q \in 1..Len(cl) |-> ClusterInfo(a, a2g, xs, cl[q])]

-----------------------------------------------------------------------------
(* Compiled kernels (_gen_code): find_bounds, f_spread, f_interpolate.      *)
(* A 1-D array x of length N is a sequence: the source's x[i] is x[i + 1].  *)

RECURSIVE FindBoundsLoop(_, _, _, _, _, _)
FindBoundsLoop(x, i, a, a_found, b, b_found) ==
    LET N == Len(x) IN
    IF i >= N THEN <<a, b>>
    ELSE LET lhs == x[i + 1]
             rhs == x[N - i]
             hitA == (~a_found) /\ Abs(lhs) > 0
             hitB == (~b_found) /\ Abs(rhs) > 0
             a2 == IF hitA THEN i ELSE a
             b2 == IF hitB THEN N - i ELSE b
             af == a_found \/ hitA
             bf == b_found \/ hitB
         IN IF af /\ bf THEN <<a2, b2>>
            ELSE FindBoundsLoop(x, i + 1, a2, af, b2, bf)

\* variant: the range stops right after the first non-zero entry
find_bounds_FirstOnly(x) ==
    LET r == FindBoundsLoop(x, 0, Len(x), FALSE, Len(x), FALSE)
    IN <<r[1], IF r[1] = Len(x) THEN Len(x) ELSE r[1] + 1>>

\* (a, b) such that x[a:b] contains the non-zero segment of x
find_bounds(x) == FindBoundsLoop(x, 0, Len(x), FALSE, Len(x), FALSE)

\* window cells visited for point j: lb[d] <= idx[d] < ub[d] on every axis
Visited(kernel, j, S) ==
    LET D == Len(S)
        bnd == [d \in 1..D |-> find_bounds(kernel[j][d])]
    IN Box([d \in 1..D |-> bnd[d][1]], [d \in 1..D |-> bnd[d][2] - 1])

\* joint weight of point j at window cell idx
JointWeight(kernel, j, idx) ==
    ProdSeq([d \in 1..Len(idx) |-> kernel[j][d][idx[d] + 1]])

\* variant: the joint weight is accumulated without the point's weight w
f_spread_NoWeight(w, kernel, S) ==
    LET D == Len(S)
        vis == [j \in 1..Len(w) |-> Visited(kernel, j, S)]
    IN [idx \in Box([d \in 1..D |-> 0], [d \in 1..D |-> S[d] - 1]) |->
          SumSeq([j \in 1..Len(w) |->
                    IF idx \in vis[j] THEN JointWeight(kernel, j, idx) ELSE 0])]

\* f_spread: w (Mq,), kernel (Mq, D, S[d]) -> sub-lattice (S1,...,SD)
f_spread(w, kernel, S) ==
    LET D == Len(S)
        vis == [j \in 1..Len(w) |-> Visited(kernel, j, S)]
    IN [idx \in Box([d \in 1..D |-> 0], [d \in 1..D |-> S[d] - 1]) |->
          SumSeq([j \in 1..Len(w) |->
                    IF idx \in vis[j] THEN JointWeight(kernel, j, idx) * w[j] ELSE 0])]

\* f_interpolate: v (S1,...,SD), kernel (Mq, D, S[d]) -> (Mq,)
f_interpolate(v, kernel, S, Mq) ==
    [j \in 1..Mq |->
        SumOver(Visited(kernel, j, S),
                [idx \in Visited(kernel, j, S) |-> JointWeight(kernel, j, idx) * v[idx]])]

-----------------------------------------------------------------------------
(* _spread / _interpolate: per-cluster work *)

\* variant: the window's nodes counted from the lattice origin, anchor forgotten
KernelWeights_NoAnchor(a, cl) ==
    [j \in 1..Len(cl.x_idx) |->
        [d \in Axes(a) |->
            [i \in 1..cl.z_num[d] |->
                Phi(a.kernel[d], Node(a, d, i - 1) - a.x[cl.x_idx[j]][d])]]]

\* lines 623-628 / 717-722: 1-D kernel weights of the cluster's points on its window
KernelWeights(a, cl) ==
    [j \in 1..Len(cl.x_idx) |->
        [d \in Axes(a) |->
            [i \in 1..cl.z_num[d] |->
                Phi(a.kernel[d],
                    Node(a, d, cl.z_anchor[d] + (i - 1)) - a.x[cl.x_idx[j]][d])]]]

\* lines 604-636: the cluster's sub-lattice, computed outside the lock
SpreadLocal(a, cl, w) ==
    f_spread([j \in 1..Len(cl.x_idx) |-> w[cl.x_idx[j]]], KernelWeights(a, cl), cl.z_num)

\* roi: global multi-indices of the cluster's window
InRoi(cl, n) ==
    \A d \in 1..Len(n) : cl.z_anchor[d] <= n[d] /\ n[d] < cl.z_anchor[d] + cl.z_num[d]

ToLocal(cl, n) == [d \in 1..Len(n) |-> n[d] - cl.z_anchor[d]]

\* variant: the sub-lattice overwrites the window instead of being added to it
Writeback_Assign(o, cl, v) ==
    [n \in DOMAIN o |-> IF InRoi(cl, n) THEN v[ToLocal(cl, n)] ELSE o[n]]

\* line 640: out[..., *roi] += v
Writeback(o, cl, v) ==
    [n \in DOMAIN o |-> IF InRoi(cl, n) THEN o[n] + v[ToLocal(cl, n)] ELSE o[n]]

\* line 640, the store of the in-place add: the window of o takes the values of t
RoiStore(o, cl, t) ==
    [n \in DOMAIN o |-> IF InRoi(cl, n) THEN t[n] ELSE o[n]]

\* variant: v read from the lattice origin instead of the cluster's window
InterpolateLocal_NoAnchor(a, cl, v) ==
    LET S == cl.z_num
        vq == [idx \in Box([d \in Axes(a) |-> 0], [d \in Axes(a) |-> S[d] - 1]) |-> v[idx]]
    IN f_interpolate(vq, KernelWeights(a, cl), S, Len(cl.x_idx))

\* lines 698-730: the cluster's local weights
InterpolateLocal(a, cl, v) ==
    LET S == cl.z_num
        vq == [idx \in Box([d \in Axes(a) |-> 0], [d \in Axes(a) |-> S[d] - 1]) |->
                 v[[d \in Axes(a) |-> cl.z_anchor[d] + idx[d]]]]
    IN f_interpolate(vq, KernelWeights(a, cl), S, Len(cl.x_idx))

\* variant: the task stores a whole output array, zero outside its own points
Assign_Clobber(o, cl, w) ==
    [m \in DOMAIN o |->
        IF \E j \in 1..Len(cl.x_idx) : cl.x_idx[j] = m
        THEN w[SetMax({j \in 1..Len(cl.x_idx) : cl.x_idx[j] = m})]
        ELSE 0]

\* line 732: out[..., x_idx] = w  (the last write wins on a repeated index)
Assign(o, cl, w) ==
    [m \in DOMAIN o |->
        IF \E j \in 1..Len(cl.x_idx) : cl.x_idx[j] = m
        THEN w[SetMax({j \in 1..Len(cl.x_idx) : cl.x_idx[j] = m})]
        ELSE o[m]]

-----------------------------------------------------------------------------
(* Precision.  An array is a record [dtype, data].  Array values are        *)
(* integers in a fine unit of their own: float64 holds every one of them,   *)
(* float32 only the even ones, and a cast to float32 rounds to the nearest  *)
(* even value (a tie goes to the multiple of 4).  Point and lattice         *)
(* coordinates are exact in both precisions.  The dtype of the array is the *)
(* one seen by the body of apply / adjoint.                                 *)

DTypes == {"float32", "float64"}

Representable(v, dt) == dt = "float64" \/ v % 2 = 0

\* scalar cast
Round(v, dt) ==
    IF Representable(v, dt) THEN v
    ELSE IF (v + 1) % 4 = 0 THEN v + 1 ELSE v - 1

\* ndarray.astype(dtype)
astype(data, dt) == [i \in DOMAIN data |-> Round(data[i], dt)]

PrecisionWarning == [category |-> "PrecisionWarning",
                     msg |-> "Computation may not be performed at the requested precision."]

\* variant: the input is passed on as it came, whatever its dtype
_cast_warn_NoCast(e, a) ==
    IF a.dtype = e.dtype THEN [out |-> a, warnings |-> <<>>]
    ELSE [out |-> a,
          warnings |-> IF e.enable_warnings THEN <<PrecisionWarning>> ELSE <<>>]

\* lines 425-433: the array handed to the computation and the warnings emitted
_cast_warn(e, a) ==
    IF a.dtype = e.dtype THEN [out |-> a, warnings |-> <<>>]
    ELSE [out |-> [dtype |-> e.dtype, data |-> astype(a.data, e.dtype)],
          warnings |-> IF e.enable_warnings THEN <<PrecisionWarning>> ELSE <<>>]

-----------------------------------------------------------------------------
(* asarray: dense matrix over all lattice nodes and all M points *)

asarray(a) ==
    [n \in Nodes(a) |->
        [m \in 1..NPoints(a) |->
            ProdSeq([d \in Axes(a) |-> Phi(a.kernel[d], Node(a, d, n[d]) - a.x[m][d])])]]

\* variant: the lattice axes flattened into one row axis
asarray_shape_Flat(a) == <<ProdSeq(a.num), NPoints(a)>>

\* line 410: A has shape (*codim_shape, *dim_shape) = (N1,...,ND, M); lines 419-421
\* convert backend and precision only
asarray_shape(a) == a.num \o <<NPoints(a)>>

-----------------------------------------------------------------------------
(* apply / adjoint as functions of the cached cluster map: the clusters     *)
(* processed one after the other in key order.                              *)

Zeros(S) == [e \in S |-> 0]

RECURSIVE SpreadAll(_, _, _, _, _)
SpreadAll(a, info, w, q, o) ==
    IF q > Len(info) THEN o
    ELSE SpreadAll(a, info, w, q + 1, Writeback(o, info[q], SpreadLocal(a, info[q], w)))

\* lines 311-318
apply(a, info, w) == SpreadAll(a, info, w, 1, Zeros(Nodes(a)))

RECURSIVE InterpolateAll(_, _, _, _, _)
InterpolateAll(a, info, v, q, o) ==
    IF q > Len(info) THEN o
    ELSE InterpolateAll(a, info, v, q + 1, Assign(o, info[q], InterpolateLocal(a, info[q], v)))

\* lines 395-401
adjoint(a, info, v) == InterpolateAll(a, info, v, 1, Zeros(1..NPoints(a)))

-----------------------------------------------------------------------------
(* Chunked (DASK) dispatch.  A chunk layout along one axis is the sequence  *)
(* of its chunk sizes.  A block is <<i, c>>: the i-th chunk of the points   *)
(* and the lattice chunk of multi-index c (both 1-based).                   *)

\* np.r_[0, chks].cumsum(): bounds[k] is the first index of chunk k, 0-based
RECURSIVE z_bounds(_)
z_bounds(chks) ==
    IF chks = <<>> THEN <<0>>
    ELSE LET b == z_bounds(SubSeq(chks, 1, Len(chks) - 1))
         IN Append(b, b[Len(b)] + chks[Len(chks)])

\* lines 281-283 / 367-369: (start, stop) indices of lattice chunk c on every axis
z_spec(z_chunks, c) ==
    [d \in 1..Len(z_chunks) |->
        <<z_bounds(z_chunks[d])[c[d]], z_bounds(z_chunks[d])[c[d] + 1]>>]

\* lattice chunk multi-indices
ZBlocks(z_chunks) ==
    Box([d \in 1..Len(z_chunks) |-> 1], [d \in 1..Len(z_chunks) |-> Len(z_chunks[d])])

\* x[chunk i] / w[..., chunk i]: the rows of the i-th chunk along the point axis
PointBlock(s, chks, i) == SubSeq(s, z_bounds(chks)[i] + 1, z_bounds(chks)[i + 1])

\* v[..., chunk c]: the lattice block, re-indexed from 0
LatticeBlock(v, zs) ==
    [idx \in Box([d \in 1..Len(zs) |-> 0], [d \in 1..Len(zs) |-> zs[d][2] - zs[d][1] - 1]) |->
        v[[d \in 1..Len(zs) |-> zs[d][1] + idx[d]]]]

\* variant: the sub-lattice stops one node short of the chunk's last node
SubLattice_ShortStop(a, zs) ==
    [start |-> [d \in Axes(a) |-> Node(a, d, zs[d][1])],
     stop  |-> [d \in Axes(a) |-> Node(a, d, Max2(zs[d][1], zs[d][2] - 2))],
     num   |-> [d \in Axes(a) |-> zs[d][2] - zs[d][1]]]

\* lines 665-675 / 757-767: first node, last node and node count of the chunk
SubLattice(a, zs) ==
    [start |-> [d \in Axes(a) |-> Node(a, d, zs[d][1])],
     stop  |-> [d \in Axes(a) |-> Node(a, d, zs[d][2] - 1)],
     num   |-> [d \in Axes(a) |-> zs[d][2] - zs[d][1]]]

\* lines 677-683 / 769-775: arguments of the transient sub-operator
SubOp(a, x_blk, zs) ==
    LET z == SubLattice(a, zs)
    IN [x |-> x_blk, start |-> z.start, stop |-> z.stop, num |-> z.num,
        kernel |-> a.kernel, max_cluster_size |-> a.max_cluster_size,
        max_window_ratio |-> a.max_window_ratio, workers |-> a.workers]

\* lines 643-685: spread of one point chunk onto one lattice chunk; raised tells
\* that an assertion of the sub-operator's constructor failed
_blockwise_spread(a, x_blk, w_blk, zs) ==
    LET op == SubOp(a, x_blk, zs)
    IN IF InitOK(op) THEN [raised |-> FALSE, v |-> apply(op, _build_info(op), w_blk)]
       ELSE [raised |-> TRUE, v |-> <<>>]

\* lines 735-779: interpolation of one lattice chunk onto one point chunk
_blockwise_interpolate(a, x_blk, v_blk, zs) ==
    LET op == SubOp(a, x_blk, zs)
    IN IF InitOK(op) THEN [raised |-> FALSE, v |-> adjoint(op, _build_info(op), v_blk)]
       ELSE [raised |-> TRUE, v |-> <<>>]

\* variant: layouts are compared by their total length only
ChunksMatch_SameTotal(w_chunks, x_chunks) == SumSeq(w_chunks) = SumSeq(x_chunks)

\* lines 268-270: arr.chunks[-1] == self._x.chunks[0]
ChunksMatch(w_chunks, x_chunks) == w_chunks = x_chunks

\* the chunk (1-based) of a layout that holds 0-based index n
ChunkOf(chks, n) == CHOOSE k \in 1..Len(chks) : z_bounds(chks)[k] <= n /\ n < z_bounds(chks)[k + 1]

\* line 308: parts.sum(axis=-1), the lattice chunks laid side by side
SumPointChunks(a, x_chunks, z_chunks, parts) ==
    [n \in Nodes(a) |->
        LET c == [d \in Axes(a) |-> ChunkOf(z_chunks[d], n[d])]
            zs == z_spec(z_chunks, c)
        IN SumSeq([i \in 1..Len(x_chunks) |->
                      parts[<<i, c>>].v[[d \in Axes(a) |-> n[d] - zs[d][1]]]])]

\* variant: only the first lattice chunk's part is kept
SumLatticeChunks_FirstOnly(a, x_chunks, z_chunks, parts) ==
    [m \in 1..NPoints(a) |->
        LET i == ChunkOf(x_chunks, m - 1)
        IN parts[<<i, [d \in Axes(a) |-> 1]>>].v[m - z_bounds(x_chunks)[i]]]

\* line 392: parts.sum(axis=(-D,...,-1)), the point chunks laid end to end
SumLatticeChunks(a, x_chunks, z_chunks, parts) ==
    [m \in 1..NPoints(a) |->
        LET i == ChunkOf(x_chunks, m - 1)
        IN SumOver(ZBlocks(z_chunks),
                   [c \in ZBlocks(z_chunks) |-> parts[<<i, c>>].v[m - z_bounds(x_chunks)[i]]])]

-----------------------------------------------------------------------------
(* Bounds and input sets *)

MaxM == 2          \* at most MaxM sample points (1-D inputs)
MaxLen == 4        \* at most MaxLen entries in a 1-D kernel weight vector
CoordMax == 6      \* 1-D point coordinates range over -2..CoordMax

Coords == (0 - 2)..CoordMax

SeqsUpTo(S, n) == UNION {[1..k -> S] : k \in 0..n}

Kernels == {[kind |-> "box", s |-> 1], [kind |-> "tri", s |-> 2],
            [kind |-> "asym", s |-> 1], [kind |-> "leaky", s |-> 1]}

\* 1-D lattices <<start, stop, num>>
Lattices1 == {<<0, 4, 3>>}

Args(x, start, stop, num, kernel, mcs, mwr, workers) ==
    [x |-> x, start |-> start, stop |-> stop, num |-> num, kernel |-> kernel,
     max_cluster_size |-> mcs, max_window_ratio |-> mwr, workers |-> workers]

\* the concrete scenario of the specification, in units of 1/2 (coordinates and
\* kernel values): triangular kernel of support radius 1, lattice start=0, stop=4,
\* num=5, points 0.5 and 2.5
Scenario(mcs) ==
    Args(<<<<1>>, <<5>>>>, <<0>>, <<8>>, <<5>>, <<[kind |-> "tri", s |-> 2]>>, mcs, 3, 2)

\* well-formed 1-D arguments
Inputs1 ==
    {Args([m \in DOMAIN xs |-> <<xs[m]>>], <<z[1]>>, <<z[2]>>, <<z[3]>>, <<k>>, mcs, 3, 2) :
        xs \in SeqsUpTo(Coords, MaxM), z \in Lattices1, k \in Kernels, mcs \in {1, 2}}

\* 1-D arguments with three points: one culled, two sharing a grid cell
Inputs3 ==
    {Args([m \in 1..3 |-> <<xs[m]>>], <<0>>, <<8>>, <<5>>, <<k>>, mcs, 3, 2) :
        xs \in [1..3 -> {-2, 1, 6}],
        k \in {[kind |-> "box", s |-> 1], [kind |-> "asym", s |-> 1]}, mcs \in {1, 2}}

\* 2-D arguments
Points2 == {<<p, q>> : p \in {-2, 0, 2}, q \in {0, 3}}
Lattices2 == {<<<<0, 0>>, <<2, 4>>, <<3, 3>>>>, <<<<0, 1>>, <<3, 1>>, <<2, 1>>>>}
Kernels2 == {<<[kind |-> "box", s |-> 1], [kind |-> "asym", s |-> 2]>>,
             <<[kind |-> "tri", s |-> 2], [kind |-> "box", s |-> 1]>>,
             <<[kind |-> "leaky", s |-> 1], [kind |-> "asym", s |-> 1]>>}

Inputs2 ==
    {Args(xs, z[1], z[2], z[3], k, mcs, 3, 2) :
        xs \in [1..1 -> Points2] \cup [1..2 -> Points2],
        z \in Lattices2, k \in Kernels2, mcs \in {1, 2}}

\* arguments with possibly malformed lattice, kernel support or options
\* the lattice step is a whole number of units (see the header)
ExactStep(start, stop, num) ==
    (num > 1 /\ start < stop) => (stop - start) % (num - 1) = 0

InputsAny ==
    {a \in
        {Args(<<<<x>>>>, <<start>>, <<stop>>, <<num>>, <<[kind |-> "box", s |-> s]>>,
              mcs, mwr, 2) :
            x \in {0, 3}, start \in {0, 1}, stop \in {0, 1, 2}, num \in {0, 1, 2, 3},
            s \in {0, 1}, mcs \in {0, 1}, mwr \in {2, 3}} :
        ExactStep(a.start[1], a.stop[1], a.num[1])}

\* single-node lattices (num = 1): one point inside or outside the support
InputsDegenerate ==
    {Args(<<<<x>>>>, <<0>>, <<stop>>, <<1>>, <<k>>, 1, 3, 2) :
        x \in {-3, -1, 0, 1, 2}, stop \in {0, 2},
        k \in {[kind |-> "asym", s |-> 1], [kind |-> "tri", s |-> 2]}}

SeqInputs ==
    Inputs1 \cup Inputs3 \cup Inputs2 \cup InputsAny \cup InputsDegenerate
        \cup {Scenario(1), Scenario(2)}

\* arguments of the operators exercised with the thread pool
ThreadInputs ==
    {Args([m \in DOMAIN xs |-> <<xs[m]>>], <<0>>, <<4>>, <<3>>, <<k>>, mcs, 3, workers) :
        xs \in SeqsUpTo({-3, 1, 2, 8}, MaxM),
        k \in {[kind |-> "box", s |-> 1], [kind |-> "tri", s |-> 2]},
        mcs \in {1, 2}, workers \in {1, 2}}

\* backend and precision of self._x, self._enable_warnings; in_dtypes: the
\* precisions of the arrays the callers pass
NumpyEnv(dt, ew, dts) ==
    [backend |-> "NUMPY", dtype |-> dt, enable_warnings |-> ew, x_chunks |-> <<>>,
     in_dtypes |-> dts]

\* callers that pass arrays of the operator's own precision
SameDTypeEnv == NumpyEnv("float64", TRUE, {"float64"})

\* operators called with arrays of either precision
CastInputs ==
    {Scenario(1)} \cup
    {Args(<<<<1>>, <<3>>>>, <<0>>, <<4>>, <<3>>, <<k>>, 1, 3, 2) :
        k \in {[kind |-> "box", s |-> 1], [kind |-> "tri", s |-> 2]}}

CastEnvs == {NumpyEnv(dt, ew, DTypes) : dt \in DTypes, ew \in BOOLEAN}

\* chunk layouts of an axis of n entries: the sequences of positive sizes of sum n
RECURSIVE Compositions(_)
Compositions(n) ==
    IF n = 0 THEN {<<>>}
    ELSE UNION {{<<k>> \o r : r \in Compositions(n - k)} : k \in 1..n}

ZChunkings(num) ==
    {zc \in [1..Len(num) -> UNION {Compositions(num[d]) : d \in 1..Len(num)}] :
        \A d \in 1..Len(num) : zc[d] \in Compositions(num[d])}

\* operators built on chunked points
DaskInputs ==
    {Args([m \in 1..2 |-> <<xs[m]>>], <<0>>, <<4>>, <<3>>, <<k>>, mcs, 3, 2) :
        xs \in {<<1, 3>>, <<3, 1>>, <<-3, 3>>, <<3, 3>>},
        k \in {[kind |-> "box", s |-> 1], [kind |-> "tri", s |-> 2]}, mcs \in {1, 2}}
    \cup
    {Args(<<<<1, 1>>, <<2, 0>>>>, <<0, 0>>, <<2, 2>>, <<2, 2>>,
          <<[kind |-> "tri", s |-> 2], [kind |-> "asym", s |-> 1]>>, 1, 3, 2),
     Args(<<<<1>>, <<3>>>>, <<0>>, <<4>>, <<3>>, <<[kind |-> "leaky", s |-> 1]>>, 1, 3, 2)}

DaskEnvs ==
    {[backend |-> "DASK", dtype |-> "float64", enable_warnings |-> TRUE,
      x_chunks |-> xc, in_dtypes |-> {"float64"}] : xc \in Compositions(NPoints(args))}

\* weights w (M,) and lattice values v (N1,...,ND) given to apply / adjoint
RECURSIVE FlatIndex(_, _, _)
FlatIndex(num, n, d) == IF d = 0 THEN 0 ELSE FlatIndex(num, n, d - 1) * num[d] + n[d]

\* the operators of the concrete scenario are also given the weights [1, 1]
WInputs(a) == {[m \in 1..NPoints(a) |-> m],
               [m \in 1..NPoints(a) |-> IF m % 2 = 1 THEN -(m + 1) ELSE m + 1]}
              \cup (IF a.x = Scenario(1).x /\ a.num = Scenario(1).num
                    THEN {[m \in 1..NPoints(a) |-> 1]} ELSE {})

\* arrays of precision dt hold values of that precision only
ArraysOf(S, dt) == {astype(w, dt) : w \in S}

\* warnings.warn: the warnings of one call, tagged with the call that issued them
Tagged(call, ws) == [i \in 1..Len(ws) |-> [call |-> call, category |-> ws[i].category]]

VInputs(a) == {[n \in Nodes(a) |-> 1 + FlatIndex(a.num, n, Rank(a))],
               [n \in Nodes(a) |-> IF FlatIndex(a.num, n, Rank(a)) % 2 = 1 THEN -1 ELSE 2]}

-----------------------------------------------------------------------------
(* State machine *)

\* in: the array the computation ran on; raw, dtype: the array as the caller passed it
NoResult == [valid |-> FALSE, in |-> <<>>, out |-> <<>>, order |-> <<>>,
             raw |-> <<>>, dtype |-> ""]

NoHeap == [bufs |-> <<>>, locks |-> <<>>]

Idle ==
    /\ arr = <<>> /\ out = <<>> /\ lock = 0
    /\ queue = <<>> /\ pc = <<>> /\ loc = <<>> /\ order = <<>>

InitOp(S, E) ==
    /\ args \in S
    /\ env \in E
    /\ phase = "new"
    /\ cl_info = <<>>
    /\ Idle
    /\ res_apply = NoResult
    /\ res_adjoint = NoResult
    /\ warned = <<>>
    /\ exc = "none"
    /\ dask = <<>>
    /\ heap = NoHeap
    /\ res_asarray = [valid |-> FALSE, out |-> <<>>, shape |-> <<>>]

\* an operator with a single caller thread
InitWith(S, E) == InitOp(S, E) /\ calls = <<>>

Init == InitWith(ThreadInputs, {SameDTypeEnv})
InitSeq == InitWith(SeqInputs, {SameDTypeEnv})

callvars == <<arr, out, lock, queue, pc, loc, order>>

\* __init__ (lines 166-223): the assertions, then the cluster map (NUMPY x);
\* with a DASK x the cluster maps are built at run time, per block
Construct ==
    /\ phase = "new"
    /\ \/ /\ InitOK(args)
          /\ phase' = "ready"
          /\ cl_info' = IF env.backend = "NUMPY" THEN _build_info(args) ELSE <<>>
       \/ /\ ~InitOK(args)
          /\ phase' = "failed"
          /\ cl_info' = cl_info
    /\ UNCHANGED <<args, callvars, res_apply, res_adjoint, env, auxvars>>

\* apply / adjoint run to completion by one caller; each is called at most once
\* per operator
ApplySeq ==
    /\ phase = "ready"
    /\ env.backend = "NUMPY"
    /\ ~res_apply.valid
    /\ \E dt \in env.in_dtypes : \E w \in ArraysOf(WInputs(args), dt) :
          LET c == _cast_warn(env, [dtype |-> dt, data |-> w])
          IN /\ warned' = warned \o Tagged("apply", c.warnings)
             /\ res_apply' = [valid |-> TRUE, in |-> c.out.data,
                              out |-> apply(args, cl_info, c.out.data),
                              order |-> [q \in 1..Len(cl_info) |-> q],
                              raw |-> w, dtype |-> dt]
    /\ UNCHANGED <<args, phase, cl_info, callvars, res_adjoint, env,
                   exc, dask, calls, heap, res_asarray>>

AdjointSeq ==
    /\ phase = "ready"
    /\ env.backend = "NUMPY"
    /\ ~res_adjoint.valid
    /\ \E dt \in env.in_dtypes : \E v \in ArraysOf(VInputs(args), dt) :
          LET c == _cast_warn(env, [dtype |-> dt, data |-> v])
          IN /\ warned' = warned \o Tagged("adjoint", c.warnings)
             /\ res_adjoint' = [valid |-> TRUE, in |-> c.out.data,
                                out |-> adjoint(args, cl_info, c.out.data),
                                order |-> [q \in 1..Len(cl_info) |-> q],
                                raw |-> v, dtype |-> dt]
    /\ UNCHANGED <<args, phase, cl_info, callvars, res_apply, env,
                   exc, dask, calls, heap, res_asarray>>

\* asarray (lines 403-422), called on an operator not used otherwise
AsArray ==
    /\ phase = "ready"
    /\ ~res_apply.valid /\ ~res_adjoint.valid /\ dask = <<>>
    /\ res_asarray' = [valid |-> TRUE, out |-> asarray(args), shape |-> asarray_shape(args)]
    /\ phase' = "dense"
    /\ UNCHANGED <<args, cl_info, callvars, res_apply, res_adjoint, env,
                   warned, exc, dask, calls, heap>>

NextSeq == Construct \/ ApplySeq \/ AdjointSeq \/ AsArray

SpecSeq == InitSeq /\ [][NextSeq]_vars

-----------------------------------------------------------------------------
(* In-memory dispatch: ThreadPoolExecutor(max_workers).map over the cluster *)
(* keys.  Task positions:                                                   *)
(*   "queued" -> "start" -> "computed" -> "locked" -> "read" -> "added"     *)
(*   -> "done" (apply), "queued" -> "start" -> "computed" -> "done"         *)
(*   (adjoint).  The in-place add of line 640 is a read of the window       *)
(*   followed by a write of the sums: it is not atomic by itself.           *)

Keys == 1..Len(cl_info)

Running == {q \in DOMAIN pc : pc[q] \notin {"queued", "done"}}

\* apply, lines 311-315: allocate out and lock, submit one task per cluster key
\* (the callers pass arrays of the operator's precision: line 238 returns them as is)
ApplyCall ==
    /\ phase = "ready"
    /\ ~res_apply.valid
    /\ \E w \in WInputs(args) : arr' = w
    /\ out' = Zeros(Nodes(args))
    /\ lock' = 0
    /\ queue' = [q \in Keys |-> q]
    /\ pc' = [q \in Keys |-> "queued"]
    /\ loc' = [q \in Keys |-> <<>>]
    /\ order' = <<>>
    /\ phase' = "apply"
    /\ UNCHANGED <<args, cl_info, res_apply, res_adjoint, env, auxvars>>

\* adjoint, lines 395-398
AdjointCall ==
    /\ phase = "ready"
    /\ ~res_adjoint.valid
    /\ \E v \in VInputs(args) : arr' = v
    /\ out' = Zeros(1..NPoints(args))
    /\ lock' = 0
    /\ queue' = [q \in Keys |-> q]
    /\ pc' = [q \in Keys |-> "queued"]
    /\ loc' = [q \in Keys |-> <<>>]
    /\ order' = <<>>
    /\ phase' = "adjoint"
    /\ UNCHANGED <<args, cl_info, res_apply, res_adjoint, env, auxvars>>

\* variant: every submitted task gets a thread of its own at once
TaskStart_NoLimit ==
    /\ phase \in {"apply", "adjoint"}
    /\ queue # <<>>
    /\ pc' = [pc EXCEPT ![Head(queue)] = "start"]
    /\ queue' = Tail(queue)
    /\ UNCHANGED <<args, phase, cl_info, arr, out, lock, loc, order, res_apply, res_adjoint, env, auxvars>>

\* a free worker thread takes the next submitted task
TaskStart ==
    /\ phase \in {"apply", "adjoint"}
    /\ queue # <<>>
    /\ Cardinality(Running) < args.workers
    /\ pc' = [pc EXCEPT ![Head(queue)] = "start"]
    /\ queue' = Tail(queue)
    /\ UNCHANGED <<args, phase, cl_info, arr, out, lock, loc, order, res_apply, res_adjoint, env, auxvars>>

\* variant: the task re-bases the member indices of its cluster record in place
SpreadCompute_Rebase(q) ==
    /\ phase = "apply"
    /\ pc[q] = "start"
    /\ loc' = [loc EXCEPT ![q] = SpreadLocal(args, cl_info[q], arr)]
    /\ pc' = [pc EXCEPT ![q] = "computed"]
    /\ cl_info' = [cl_info EXCEPT ![q].x_idx = [j \in DOMAIN @ |-> j]]
    /\ UNCHANGED <<args, phase, arr, out, lock, queue, order, res_apply, res_adjoint, env, auxvars>>

\* _spread, lines 604-636: the cluster's sub-lattice, in a task-local buffer
SpreadCompute(q) ==
    /\ phase = "apply"
    /\ pc[q] = "start"
    /\ loc' = [loc EXCEPT ![q] = SpreadLocal(args, cl_info[q], arr)]
    /\ pc' = [pc EXCEPT ![q] = "computed"]
    /\ UNCHANGED <<args, phase, cl_info, arr, out, lock, queue, order, res_apply, res_adjoint, env, auxvars>>

\* variant: the task enters the with block without waiting for the lock
LockAcquire_NoWait(q) ==
    /\ phase = "apply"
    /\ pc[q] = "computed"
    /\ lock' = q
    /\ pc' = [pc EXCEPT ![q] = "locked"]
    /\ UNCHANGED <<args, phase, cl_info, arr, out, queue, loc, order, res_apply, res_adjoint, env, auxvars>>

\* _spread, line 639: with out_lock
LockAcquire(q) ==
    /\ phase = "apply"
    /\ pc[q] = "computed"
    /\ lock = 0
    /\ lock' = q
    /\ pc' = [pc EXCEPT ![q] = "locked"]
    /\ UNCHANGED <<args, phase, cl_info, arr, out, queue, loc, order, res_apply, res_adjoint, env, auxvars>>

\* _spread, line 640, first half: the window is read and the sums out[roi] + v
\* are formed (kept in the task's buffer, at the window's place)
SpreadRead(q) ==
    /\ phase = "apply"
    /\ pc[q] = "locked"
    /\ loc' = [loc EXCEPT ![q] = Writeback(out, cl_info[q], loc[q])]
    /\ pc' = [pc EXCEPT ![q] = "read"]
    /\ UNCHANGED <<args, phase, cl_info, arr, out, lock, queue, order, res_apply, res_adjoint, env, auxvars>>

\* _spread, line 640, second half: the sums are stored into the window
SpreadAdd(q) ==
    /\ phase = "apply"
    /\ pc[q] = "read"
    /\ out' = RoiStore(out, cl_info[q], loc[q])
    /\ pc' = [pc EXCEPT ![q] = "added"]
    /\ order' = Append(order, q)
    /\ UNCHANGED <<args, phase, cl_info, arr, lock, queue, loc, res_apply, res_adjoint, env, auxvars>>

\* _spread, end of the with block
LockRelease(q) ==
    /\ phase = "apply"
    /\ pc[q] = "added"
    /\ lock' = 0
    /\ pc' = [pc EXCEPT ![q] = "done"]
    /\ loc' = [loc EXCEPT ![q] = <<>>]
    /\ UNCHANGED <<args, phase, cl_info, arr, out, queue, order, res_apply, res_adjoint, env, auxvars>>

\* apply, lines 316-318: all results consumed, pool shut down, out returned
ApplyReturn ==
    /\ phase = "apply"
    /\ \A q \in DOMAIN pc : pc[q] = "done"
    /\ res_apply' = [valid |-> TRUE, in |-> arr, out |-> out, order |-> order,
                     raw |-> arr, dtype |-> env.dtype]
    /\ phase' = "ready"
    /\ arr' = <<>> /\ out' = <<>> /\ lock' = 0
    /\ queue' = <<>> /\ pc' = <<>> /\ loc' = <<>> /\ order' = <<>>
    /\ UNCHANGED <<args, cl_info, res_adjoint, env, auxvars>>

\* _interpolate, lines 698-730
InterpolateCompute(q) ==
    /\ phase = "adjoint"
    /\ pc[q] = "start"
    /\ loc' = [loc EXCEPT ![q] = InterpolateLocal(args, cl_info[q], arr)]
    /\ pc' = [pc EXCEPT ![q] = "computed"]
    /\ UNCHANGED <<args, phase, cl_info, arr, out, lock, queue, order, res_apply, res_adjoint, env, auxvars>>

\* _interpolate, line 732 (no lock)
InterpolateWrite(q) ==
    /\ phase = "adjoint"
    /\ pc[q] = "computed"
    /\ out' = Assign(out, cl_info[q], loc[q])
    /\ pc' = [pc EXCEPT ![q] = "done"]
    /\ loc' = [loc EXCEPT ![q] = <<>>]
    /\ order' = Append(order, q)
    /\ UNCHANGED <<args, phase, cl_info, arr, lock, queue, res_apply, res_adjoint, env, auxvars>>

\* adjoint, lines 399-401
AdjointReturn ==
    /\ phase = "adjoint"
    /\ \A q \in DOMAIN pc : pc[q] = "done"
    /\ res_adjoint' = [valid |-> TRUE, in |-> arr, out |-> out, order |-> order,
                       raw |-> arr, dtype |-> env.dtype]
    /\ phase' = "ready"
    /\ arr' = <<>> /\ out' = <<>> /\ lock' = 0
    /\ queue' = <<>> /\ pc' = <<>> /\ loc' = <<>> /\ order' = <<>>
    /\ UNCHANGED <<args, cl_info, res_apply, env, auxvars>>

Next ==
    \/ Construct
    \/ ApplyCall
    \/ AdjointCall
    \/ TaskStart
    \/ \E q \in DOMAIN pc : SpreadCompute(q)
    \/ \E q \in DOMAIN pc : LockAcquire(q)
    \/ \E q \in DOMAIN pc : SpreadRead(q)
    \/ \E q \in DOMAIN pc : SpreadAdd(q)
    \/ \E q \in DOMAIN pc : LockRelease(q)
    \/ ApplyReturn
    \/ \E q \in DOMAIN pc : InterpolateCompute(q)
    \/ \E q \in DOMAIN pc : InterpolateWrite(q)
    \/ AdjointReturn

Spec == Init /\ [][Next]_vars

-----------------------------------------------------------------------------
(* Chunked dispatch: apply / adjoint on DASK arrays.  dask holds the        *)
(* chunked call in progress, or the last one: the array after the cast, the *)
(* chunk layouts, and the block results computed so far.  One chunked call  *)
(* is made per operator, and none after a call has raised.                  *)

DaskBlocks ==
    IF dask = <<>> THEN {}
    ELSE {<<i, c>> : i \in 1..Len(env.x_chunks), c \in ZBlocks(dask.z_chunks)}

DaskCall(call, c, raw, dt, in_chunks, z_chunks) ==
    [call |-> call, arr |-> c.out.data, raw |-> raw, dtype |-> dt,
     in_chunks |-> in_chunks, z_chunks |-> z_chunks, parts |-> <<>>, subops |-> 0]

\* apply, lines 238-307: cast, chunk assertion, lattice chunks chosen by dask
\* ("auto"), block graph
DaskApplyCall ==
    /\ phase = "ready"
    /\ env.backend = "DASK"
    /\ exc = "none" /\ dask = <<>>
    /\ \E dt \in env.in_dtypes : \E w \in ArraysOf(WInputs(args), dt) :
       \E w_chunks \in Compositions(NPoints(args)) :
          LET c == _cast_warn(env, [dtype |-> dt, data |-> w])
          IN /\ warned' = warned \o Tagged("apply", c.warnings)
             /\ IF ChunksMatch(w_chunks, env.x_chunks)
                THEN /\ \E zc \in ZChunkings(args.num) :
                           dask' = DaskCall("apply", c, w, dt, w_chunks, zc)
                     /\ phase' = "dask_apply"
                     /\ exc' = exc
                ELSE /\ dask' = DaskCall("apply", c, w, dt, w_chunks, <<>>)
                     /\ phase' = phase
                     /\ exc' = "AssertionError"
    /\ UNCHANGED <<args, cl_info, callvars, res_apply, res_adjoint, env,
                   calls, heap, res_asarray>>

\* one block of the graph of lines 295-307: _blockwise_spread on (x_i, w_i, z_spec_c)
BlockSpread(b) ==
    /\ phase = "dask_apply"
    /\ b \in DaskBlocks \ DOMAIN dask.parts
    /\ LET zs == z_spec(dask.z_chunks, b[2])
           v == _blockwise_spread(args, PointBlock(args.x, env.x_chunks, b[1]),
                                  PointBlock(dask.arr, dask.in_chunks, b[1]), zs)
       IN dask' = [dask EXCEPT !.parts = @ @@ (b :> v), !.subops = @ + 1]
    /\ UNCHANGED <<args, phase, cl_info, callvars, res_apply, res_adjoint, env,
                   warned, exc, calls, heap, res_asarray>>

\* line 308 and return: every block computed, the parts summed over the point chunks
DaskApplyReturn ==
    /\ phase = "dask_apply"
    /\ DOMAIN dask.parts = DaskBlocks
    /\ phase' = "ready"
    /\ IF \E b \in DaskBlocks : dask.parts[b].raised
       THEN exc' = "AssertionError" /\ res_apply' = res_apply
       ELSE /\ exc' = exc
            /\ res_apply' = [valid |-> TRUE, in |-> dask.arr,
                             out |-> SumPointChunks(args, env.x_chunks, dask.z_chunks,
                                                    dask.parts),
                             order |-> <<>>, raw |-> dask.raw, dtype |-> dask.dtype]
    /\ UNCHANGED <<args, cl_info, callvars, res_adjoint, env,
                   warned, dask, calls, heap, res_asarray>>

\* adjoint, lines 333-391: cast, lattice chunks taken from the input, block graph
DaskAdjointCall ==
    /\ phase = "ready"
    /\ env.backend = "DASK"
    /\ exc = "none" /\ dask = <<>>
    /\ \E dt \in env.in_dtypes : \E v \in ArraysOf(VInputs(args), dt) :
       \E v_chunks \in ZChunkings(args.num) :
          LET c == _cast_warn(env, [dtype |-> dt, data |-> v])
          IN /\ warned' = warned \o Tagged("adjoint", c.warnings)
             /\ dask' = DaskCall("adjoint", c, v, dt, v_chunks, v_chunks)
    /\ phase' = "dask_adjoint"
    /\ UNCHANGED <<args, cl_info, callvars, res_apply, res_adjoint, env,
                   exc, calls, heap, res_asarray>>

\* one block of the graph of lines 379-391: _blockwise_interpolate on (x_i, v_c, z_spec_c)
BlockInterpolate(b) ==
    /\ phase = "dask_adjoint"
    /\ b \in DaskBlocks \ DOMAIN dask.parts
    /\ LET zs == z_spec(dask.z_chunks, b[2])
           w == _blockwise_interpolate(args, PointBlock(args.x, env.x_chunks, b[1]),
                                       LatticeBlock(dask.arr, zs), zs)
       IN dask' = [dask EXCEPT !.parts = @ @@ (b :> w), !.subops = @ + 1]
    /\ UNCHANGED <<args, phase, cl_info, callvars, res_apply, res_adjoint, env,
                   warned, exc, calls, heap, res_asarray>>

\* line 392 and return: the parts summed over the lattice chunks
DaskAdjointReturn ==
    /\ phase = "dask_adjoint"
    /\ DOMAIN dask.parts = DaskBlocks
    /\ phase' = "ready"
    /\ IF \E b \in DaskBlocks : dask.parts[b].raised
       THEN exc' = "AssertionError" /\ res_adjoint' = res_adjoint
       ELSE /\ exc' = exc
            /\ res_adjoint' = [valid |-> TRUE, in |-> dask.arr,
                               out |-> SumLatticeChunks(args, env.x_chunks, dask.z_chunks,
                                                        dask.parts),
                               order |-> <<>>, raw |-> dask.raw, dtype |-> dask.dtype]
    /\ UNCHANGED <<args, cl_info, callvars, res_apply, env,
                   warned, dask, calls, heap, res_asarray>>

NextDask ==
    \/ Construct
    \/ ApplySeq
    \/ AdjointSeq
    \/ DaskApplyCall
    \/ \E b \in DaskBlocks : BlockSpread(b)
    \/ DaskApplyReturn
    \/ DaskAdjointCall
    \/ \E b \in DaskBlocks : BlockInterpolate(b)
    \/ DaskAdjointReturn

InitDask == InitWith(CastInputs, CastEnvs) \/ InitWith(DaskInputs, DaskEnvs)

SpecDask == InitDask /\ [][NextDask]_vars

-----------------------------------------------------------------------------
(* Concurrent callers of one in-memory operator.  Every caller thread makes  *)
(* one call; calls[c] is the frame of caller c: its input, the references    *)
(* of the buffer and lock it allocated, its executor (queue, pc, loc), the   *)
(* position it of the loop over the results, and the keys whose results     *)
(* were written (writes).  Task positions are those of the single-caller    *)
(* model, plus "raised" (the task's exception is stored in its future) and  *)
(* "cancelled".  A lock is <<0, 0>> when free, <<c, q>> when held.  mixed    *)
(* records that the caller wrote a result while another caller was between  *)
(* its first and its last write.                                            *)

Free == <<0, 0>>

Caller(op, may_raise) ==
    [op |-> op, may_raise |-> may_raise, st |-> "idle", arr |-> <<>>,
     out_ref |-> 0, lock_ref |-> 0, queue |-> <<>>, pc |-> <<>>, loc |-> <<>>,
     it |-> 0, writes |-> <<>>, mixed |-> FALSE, ret |-> 0, exc |-> "none"]

Callers == 1..Len(calls)

\* variant: the output buffer is kept on the instance and handed out again
NewBuffer_Cached(bufs, v) ==
    IF bufs = <<>> THEN [bufs |-> <<v>>, ref |-> 1] ELSE [bufs |-> bufs, ref |-> 1]

\* lines 311 / 395: xp.zeros(...), a fresh array
NewBuffer(bufs, v) == [bufs |-> Append(bufs, v), ref |-> Len(bufs) + 1]

\* line 312: threading.Lock(), a fresh lock
NewLock(locks) == [locks |-> Append(locks, Free), ref |-> Len(locks) + 1]

\* the array caller c passes: every caller its own
CallerArrays(a, op, c) ==
    IF op = "apply" THEN {[m \in 1..NPoints(a) |-> m + c - 1]}
    ELSE {[n \in Nodes(a) |-> c + FlatIndex(a.num, n, Rank(a))]}

\* another caller is between its first and its last write
OtherMidWrite(c) ==
    \E o \in Callers \ {c} :
        calls[o].st = "running" /\ 0 < Len(calls[o].writes)
            /\ Len(calls[o].writes) < Len(calls[o].pc)

PoolRunning(cs) == {q \in DOMAIN cs.pc : cs.pc[q] \in {"start", "computed", "locked", "added"}}

\* lines 311-315 / 395-398: allocate the buffer (and the lock), submit the tasks
CallStart(c) ==
    /\ phase = "ready"
    /\ calls[c].st = "idle"
    /\ LET isApply == calls[c].op = "apply"
           b == NewBuffer(heap.bufs, IF isApply THEN Zeros(Nodes(args))
                                     ELSE Zeros(1..NPoints(args)))
           l == IF isApply THEN NewLock(heap.locks) ELSE [locks |-> heap.locks, ref |-> 0]
       IN /\ heap' = [bufs |-> b.bufs, locks |-> l.locks]
          /\ \E a \in CallerArrays(args, calls[c].op, c) :
                calls' = [calls EXCEPT ![c] =
                             [@ EXCEPT !.st = "running", !.arr = a,
                                       !.out_ref = b.ref, !.lock_ref = l.ref,
                                       !.queue = [q \in Keys |-> q],
                                       !.pc = [q \in Keys |-> "queued"],
                                       !.loc = [q \in Keys |-> <<>>],
                                       !.it = 1]]
    /\ UNCHANGED <<args, phase, cl_info, callvars, res_apply, res_adjoint, env,
                   warned, exc, dask, res_asarray>>

\* a free worker of the caller's executor takes its next submitted task
PoolStart(c) ==
    /\ calls[c].queue # <<>>
    /\ Cardinality(PoolRunning(calls[c])) < args.workers
    /\ calls' = [calls EXCEPT ![c].pc[Head(calls[c].queue)] = "start",
                              ![c].queue = Tail(@)]
    /\ UNCHANGED <<args, phase, cl_info, callvars, res_apply, res_adjoint, env,
                   noncallvars>>

\* _spread, lines 604-636 / _interpolate, lines 698-730
TaskCompute(c, q) ==
    /\ calls[c].pc[q] = "start"
    /\ calls' = [calls EXCEPT
                    ![c].loc[q] = IF calls[c].op = "apply"
                                  THEN SpreadLocal(args, cl_info[q], calls[c].arr)
                                  ELSE InterpolateLocal(args, cl_info[q], calls[c].arr),
                    ![c].pc[q] = "computed"]
    /\ UNCHANGED <<args, phase, cl_info, callvars, res_apply, res_adjoint, env,
                   noncallvars>>

\* the kernel evaluation of lines 627-628 / 721-722 (user code) raises
TaskRaise(c, q) ==
    /\ calls[c].may_raise
    /\ calls[c].pc[q] = "start"
    /\ calls' = [calls EXCEPT ![c].pc[q] = "raised"]
    /\ UNCHANGED <<args, phase, cl_info, callvars, res_apply, res_adjoint, env,
                   noncallvars>>

\* _spread, line 639: with out_lock
TaskLock(c, q) ==
    /\ calls[c].op = "apply"
    /\ calls[c].pc[q] = "computed"
    /\ heap.locks[calls[c].lock_ref] = Free
    /\ heap' = [heap EXCEPT !.locks[calls[c].lock_ref] = <<c, q>>]
    /\ calls' = [calls EXCEPT ![c].pc[q] = "locked"]
    /\ UNCHANGED <<args, phase, cl_info, callvars, res_apply, res_adjoint, env,
                   warned, exc, dask, res_asarray>>

\* _spread, line 640
TaskAdd(c, q) ==
    /\ calls[c].pc[q] = "locked"
    /\ heap' = [heap EXCEPT !.bufs[calls[c].out_ref] =
                                Writeback(@, cl_info[q], calls[c].loc[q])]
    /\ calls' = [calls EXCEPT ![c].pc[q] = "added", ![c].writes = Append(@, q),
                              ![c].mixed = @ \/ OtherMidWrite(c)]
    /\ UNCHANGED <<args, phase, cl_info, callvars, res_apply, res_adjoint, env,
                   warned, exc, dask, res_asarray>>

\* variant: the lock is not released when the add raises
TaskAddFail_KeepLock(c, q) ==
    /\ calls[c].may_raise
    /\ calls[c].pc[q] = "locked"
    /\ heap' = heap
    /\ calls' = [calls EXCEPT ![c].pc[q] = "raised"]
    /\ UNCHANGED <<args, phase, cl_info, callvars, res_apply, res_adjoint, env,
                   warned, exc, dask, res_asarray>>

\* _spread, lines 639-640: the add raises; leaving the with block releases the
\* lock, the exception is stored in the task's future, the buffer is left as it was
TaskAddFail(c, q) ==
    /\ calls[c].may_raise
    /\ calls[c].pc[q] = "locked"
    /\ heap' = [heap EXCEPT !.locks[calls[c].lock_ref] = Free]
    /\ calls' = [calls EXCEPT ![c].pc[q] = "raised"]
    /\ UNCHANGED <<args, phase, cl_info, callvars, res_apply, res_adjoint, env,
                   warned, exc, dask, res_asarray>>

\* _spread, end of the with block
TaskUnlock(c, q) ==
    /\ calls[c].pc[q] = "added"
    /\ heap' = [heap EXCEPT !.locks[calls[c].lock_ref] = Free]
    /\ calls' = [calls EXCEPT ![c].pc[q] = "done", ![c].loc[q] = <<>>]
    /\ UNCHANGED <<args, phase, cl_info, callvars, res_apply, res_adjoint, env,
                   warned, exc, dask, res_asarray>>

\* _interpolate, line 732 (no lock)
TaskWrite(c, q) ==
    /\ calls[c].op = "adjoint"
    /\ calls[c].pc[q] = "computed"
    /\ heap' = [heap EXCEPT !.bufs[calls[c].out_ref] =
                                Assign(@, cl_info[q], calls[c].loc[q])]
    /\ calls' = [calls EXCEPT ![c].pc[q] = "done", ![c].loc[q] = <<>>,
                              ![c].writes = Append(@, q),
                              ![c].mixed = @ \/ OtherMidWrite(c)]
    /\ UNCHANGED <<args, phase, cl_info, callvars, res_apply, res_adjoint, env,
                   warned, exc, dask, res_asarray>>

\* variant: a task's exception is dropped with its result
ResultOK_Swallow(cs) == cs.pc[cs.it] \in {"done", "raised"}

\* lines 316-317 / 399-400: the loop obtains the next result, in submission order
ResultOK(cs) == cs.pc[cs.it] = "done"

Consume(c) ==
    /\ calls[c].st = "running"
    /\ calls[c].it <= Len(calls[c].pc)
    /\ ResultOK(calls[c])
    /\ calls' = [calls EXCEPT ![c].it = @ + 1]
    /\ UNCHANGED <<args, phase, cl_info, callvars, res_apply, res_adjoint, env,
                   noncallvars>>

\* lines 316-317 / 399-400: the next result is an exception: it leaves the loop,
\* the tasks not yet started are cancelled
Fail(c) ==
    /\ calls[c].st = "running"
    /\ calls[c].it <= Len(calls[c].pc)
    /\ ~ResultOK(calls[c])
    /\ calls[c].pc[calls[c].it] = "raised"
    /\ calls' = [calls EXCEPT
                    ![c].st = "unwinding",
                    ![c].queue = <<>>,
                    ![c].pc = [q \in DOMAIN @ |-> IF @[q] = "queued" THEN "cancelled" ELSE @[q]]]
    /\ UNCHANGED <<args, phase, cl_info, callvars, res_apply, res_adjoint, env,
                   noncallvars>>

\* end of the with block (executor shutdown waits for the running tasks), then the
\* exception reaches the caller: nothing is returned
Raise(c) ==
    /\ calls[c].st = "unwinding"
    /\ PoolRunning(calls[c]) = {}
    /\ calls' = [calls EXCEPT ![c].st = "raised", ![c].exc = "TaskError"]
    /\ UNCHANGED <<args, phase, cl_info, callvars, res_apply, res_adjoint, env,
                   noncallvars>>

\* lines 318 / 401: every result obtained, the pool shut down, out returned
Return(c) ==
    /\ calls[c].st = "running"
    /\ calls[c].it > Len(calls[c].pc)
    /\ PoolRunning(calls[c]) = {}
    /\ calls' = [calls EXCEPT ![c].st = "returned", ![c].ret = calls[c].out_ref]
    /\ UNCHANGED <<args, phase, cl_info, callvars, res_apply, res_adjoint, env,
                   noncallvars>>

NextCalls ==
    \/ Construct
    \/ \E c \in Callers : CallStart(c)
    \/ \E c \in Callers : PoolStart(c)
    \/ \E c \in Callers : \E q \in DOMAIN calls[c].pc : TaskCompute(c, q)
    \/ \E c \in Callers : \E q \in DOMAIN calls[c].pc : TaskRaise(c, q)
    \/ \E c \in Callers : \E q \in DOMAIN calls[c].pc : TaskLock(c, q)
    \/ \E c \in Callers : \E q \in DOMAIN calls[c].pc : TaskAdd(c, q)
    \/ \E c \in Callers : \E q \in DOMAIN calls[c].pc : TaskAddFail(c, q)
    \/ \E c \in Callers : \E q \in DOMAIN calls[c].pc : TaskUnlock(c, q)
    \/ \E c \in Callers : \E q \in DOMAIN calls[c].pc : TaskWrite(c, q)
    \/ \E c \in Callers : Consume(c)
    \/ \E c \in Callers : Fail(c)
    \/ \E c \in Callers : Raise(c)
    \/ \E c \in Callers : Return(c)

\* operators shared by concurrent callers
CallInputs ==
    {Args(<<<<1>>, <<2>>>>, <<0>>, <<4>>, <<3>>, <<[kind |-> "box", s |-> 1]>>,
          mcs, 3, workers) : mcs \in {1, 2}, workers \in {1, 2}}
    \cup {Args(<<<<1>>, <<2>>>>, <<0>>, <<4>>, <<3>>, <<[kind |-> "tri", s |-> 2]>>, 1, 3, 2)}

\* the calls made concurrently: two callers, or one caller whose tasks may raise
CallPlans ==
    {<<Caller(o1, FALSE), Caller(o2, FALSE)>> : o1, o2 \in {"apply", "adjoint"}}
    \cup {<<Caller(o, TRUE)>> : o \in {"apply", "adjoint"}}

InitCalls == InitOp(CallInputs, {SameDTypeEnv}) /\ calls \in CallPlans

SpecCalls == InitCalls /\ [][NextCalls]_vars

\* fair scheduling: the caller threads and the worker threads of the pools keep
\* taking steps while they can (threads are pre-emptively scheduled by the
\* interpreter; a task is a synchronous, blocking call)
CallerStep(c) ==
    /\ c \in Callers
    /\ CallStart(c) \/ Consume(c) \/ Fail(c) \/ Raise(c) \/ Return(c)

WorkerStep(c) == c \in Callers /\ PoolStart(c)

TaskStep(c, q) ==
    /\ c \in Callers
    /\ q \in DOMAIN calls[c].pc
    /\ \/ TaskCompute(c, q) \/ TaskRaise(c, q) \/ TaskLock(c, q) \/ TaskAdd(c, q)
       \/ TaskAddFail(c, q) \/ TaskUnlock(c, q) \/ TaskWrite(c, q)

Fairness ==
    /\ WF_vars(CallerStep(1)) /\ WF_vars(WorkerStep(1))
    /\ \A q \in 1..2 : WF_vars(TaskStep(1, q))

\* one caller, whose tasks may raise, under fair scheduling
InitFair ==
    /\ InitOp(CallInputs, {SameDTypeEnv})
    /\ calls \in {<<Caller(o, TRUE)>> : o \in {"apply", "adjoint"}}

SpecCallsFair == InitFair /\ [][NextCalls]_vars /\ Fairness

-----------------------------------------------------------------------------
(* The compiled kernels run on their own: one point (M = 1), its 1-D kernel  *)
(* weights arr[d] on a window of shape S[d] = Len(arr[d]), D = 1 or 2.       *)
(* loc holds the bounds find_bounds returns, out the array the kernel fills. *)

\* 1-D weight vectors: zero and non-zero entries in any arrangement
KernelRows ==
    LET Vectors(n) == UNION {[1..k -> {0, 1, -2}] : k \in 1..n}
    IN {<<x>> : x \in Vectors(MaxLen)} \cup {<<x, y>> : x, y \in Vectors(MaxLen - 2)}

RowShape(k) == [d \in DOMAIN k |-> Len(k[d])]

\* the sub-lattice values given to f_interpolate
RowValues(S) ==
    [idx \in Box([d \in DOMAIN S |-> 0], [d \in DOMAIN S |-> S[d] - 1]) |->
        1 + FlatIndex(S, idx, Len(S))]

InitKernel ==
    /\ arr \in KernelRows
    /\ phase = "kernel"
    /\ args = <<>> /\ cl_info = <<>> /\ env = SameDTypeEnv
    /\ out = <<>> /\ lock = 0 /\ queue = <<>> /\ pc = <<>> /\ loc = <<>> /\ order = <<>>
    /\ res_apply = NoResult /\ res_adjoint = NoResult
    /\ warned = <<>> /\ exc = "none" /\ dask = <<>> /\ calls = <<>> /\ heap = NoHeap
    /\ res_asarray = [valid |-> FALSE, out |-> <<>>, shape |-> <<>>]

\* lines 839-840 / 871-872: lb[d], ub[d] = find_bounds(kernel[m, d, : S[d]])
RunFindBounds ==
    /\ phase = "kernel"
    /\ loc' = [d \in DOMAIN arr |-> find_bounds(arr[d])]
    /\ phase' = "bounds"
    /\ UNCHANGED <<args, cl_info, arr, out, lock, queue, pc, order, res_apply, res_adjoint,
                   env, auxvars>>

\* f_spread on the weight 3 of the single point
RunSpread ==
    /\ phase = "kernel"
    /\ out' = f_spread(<<3>>, <<arr>>, RowShape(arr))
    /\ phase' = "spread"
    /\ UNCHANGED <<args, cl_info, arr, lock, queue, pc, loc, order, res_apply, res_adjoint,
                   env, auxvars>>

\* f_interpolate of the window values onto the single point
RunInterpolate ==
    /\ phase = "kernel"
    /\ out' = f_interpolate(RowValues(RowShape(arr)), <<arr>>, RowShape(arr), 1)
    /\ phase' = "interpolate"
    /\ UNCHANGED <<args, cl_info, arr, lock, queue, pc, loc, order, res_apply, res_adjoint,
                   env, auxvars>>

NextKernel == RunFindBounds \/ RunSpread \/ RunInterpolate

SpecKernel == InitKernel /\ [][NextKernel]_vars

-----------------------------------------------------------------------------
(* Properties *)

Built == phase \in {"ready", "apply", "adjoint"}

Members(cl) == Range(cl.x_idx)

\* inner products and dense matrix products
Dot(S, f, g) == SumOver(S, [e \in S |-> f[e] * g[e]])
MatVec(A, w) == [n \in DOMAIN A |-> Dot(DOMAIN w, A[n], w)]
MatTVec(A, v, M) == [m \in 1..M |-> Dot(DOMAIN v, [n \in DOMAIN v |-> A[n][m]], v)]

\* C1 -- Adjointness: once apply(w) and adjoint(v) have both returned on the
\* same operator, sum_n apply(w)[n]*v[n] = sum_m w[m]*adjoint(v)[m], for every
\* kernel (compact or not) and every cluster configuration.
Adjointness ==
    (res_apply.valid /\ res_adjoint.valid) =>
        Dot(Nodes(args), res_apply.out, res_adjoint.in)
            = Dot(1..NPoints(args), res_apply.in, res_adjoint.out)

AdjointnessWitness ==
    /\ res_apply.valid /\ res_adjoint.valid
    /\ Len(cl_info) >= 2
    /\ \E q \in 1..Len(cl_info) : \E d \in Axes(args) : cl_info[q].z_anchor[d] > 0
    /\ Dot(Nodes(args), res_apply.out, res_adjoint.in) # 0

\* C2 -- Partition completeness: the x_idx of the clusters hold no index twice,
\* are pairwise disjoint, and their union is exactly the set of indices (into
\* the original x) of the active points.
PartitionComplete ==
    Built =>
        /\ \A q \in 1..Len(cl_info) :
              Cardinality(Members(cl_info[q])) = Len(cl_info[q].x_idx)
        /\ \A q, r \in 1..Len(cl_info) :
              q # r => Members(cl_info[q]) \cap Members(cl_info[r]) = {}
        /\ UNION {Members(cl_info[q]) : q \in 1..Len(cl_info)}
              = {m \in 1..NPoints(args) :
                    \A d \in Axes(args) :
                        /\ args.start[d] - args.kernel[d].s <= args.x[m][d]
                        /\ args.x[m][d] <= args.stop[d] + args.kernel[d].s}

PartitionCompleteWitness ==
    /\ Built
    /\ Len(cl_info) >= 2
    /\ \E m \in 1..NPoints(args) : \A q \in 1..Len(cl_info) : m \notin Members(cl_info[q])
    /\ \E m \in 2..NPoints(args) : \E q \in 1..Len(cl_info) : m \in Members(cl_info[q])

InSupport(a, m, n) ==
    \A d \in Axes(a) : Abs(Node(a, d, n[d]) - a.x[m][d]) <= a.kernel[d].s

\* C3 -- Cluster window invariant: every lattice node within the support of a
\* member point, on all axes, lies inside the window of the point's cluster.
WindowCoversSupport ==
    Built =>
        \A q \in 1..Len(cl_info) : \A m \in Members(cl_info[q]) : \A n \in Nodes(args) :
            InSupport(args, m, n) => InRoi(cl_info[q], n)

WindowCoversSupportWitness ==
    /\ Built
    /\ \E q \in 1..Len(cl_info) :
          /\ \E n \in Nodes(args) : ~InRoi(cl_info[q], n)
          /\ \E m \in Members(cl_info[q]) : \E n, k \in Nodes(args) :
                n # k /\ InSupport(args, m, n) /\ InSupport(args, m, k)

\* C4 -- Dense-matrix equivalence: with every axis kernel zero outside its
\* declared support, apply(w) = A w and adjoint(v) = A^T v, A = asarray().
DenseEquivalence ==
    (\A d \in Axes(args) : Compact(args.kernel[d])) =>
        /\ res_apply.valid => res_apply.out = MatVec(asarray(args), res_apply.in)
        /\ res_adjoint.valid =>
              res_adjoint.out = MatTVec(asarray(args), res_adjoint.in, NPoints(args))

DenseEquivalenceWitness ==
    /\ \A d \in Axes(args) : Compact(args.kernel[d])
    /\ res_apply.valid /\ res_adjoint.valid
    /\ Len(cl_info) >= 2
    /\ \E n \in Nodes(args) : res_apply.out[n] # 0
    /\ \E m \in 1..NPoints(args) : res_adjoint.out[m] # 0

\* the support box [x - s, x + s] misses the lattice bounding box on some axis
StrictlyOutside(a, m) ==
    \E d \in Axes(a) :
        \/ a.x[m][d] + a.kernel[d].s < a.start[d]
        \/ a.x[m][d] - a.kernel[d].s > a.stop[d]

\* C5 -- Zero contribution outside support: a point whose support box lies
\* strictly outside the lattice bounding box is in no cluster, and apply
\* returns an all-zero lattice when every point is such a point.
ZeroOutsideSupport ==
    Built =>
        /\ \A m \in 1..NPoints(args) :
              StrictlyOutside(args, m) =>
                  \A q \in 1..Len(cl_info) : m \notin Members(cl_info[q])
        /\ (res_apply.valid /\ \A m \in 1..NPoints(args) : StrictlyOutside(args, m)) =>
              res_apply.out = Zeros(Nodes(args))

ZeroOutsideSupportWitness ==
    /\ res_apply.valid
    /\ NPoints(args) >= 1
    /\ \A m \in 1..NPoints(args) : StrictlyOutside(args, m) /\ res_apply.in[m] # 0
    /\ res_apply.out = Zeros(Nodes(args))

\* sum over the clusters of each cluster's sub-lattice placed at its window
ClusterSum(a, info, w) ==
    [n \in Nodes(a) |->
        SumSeq([q \in 1..Len(info) |->
                  IF InRoi(info[q], n)
                  THEN SpreadLocal(a, info[q], w)[ToLocal(info[q], n)] ELSE 0])]

\* C6 -- Order independence: whatever the order in which the pool ran the
\* cluster tasks, the lattice returned by apply is the sum of the clusters'
\* sub-lattices placed at their windows.
OrderIndependent ==
    res_apply.valid => res_apply.out = ClusterSum(args, cl_info, res_apply.in)

Overlap(c1, c2) ==
    \A d \in 1..Len(c1.z_anchor) :
        /\ c1.z_anchor[d] < c2.z_anchor[d] + c2.z_num[d]
        /\ c2.z_anchor[d] < c1.z_anchor[d] + c1.z_num[d]

OrderIndependentWitness ==
    /\ res_apply.valid
    /\ Len(cl_info) >= 2
    /\ res_apply.order[1] # 1
    /\ Overlap(cl_info[1], cl_info[2])
    /\ \E n \in Nodes(args) : res_apply.out[n] # 0

\* C7 -- Point-count cap: every cluster holds at most max_cluster_size points.
PointCap ==
    Built => \A q \in 1..Len(cl_info) : Len(cl_info[q].x_idx) <= args.max_cluster_size

\* bisection has split a grid cell, and some cluster within the cap has a window
\* wider than the target 2 s max_window_ratio
PointCapWitness ==
    /\ Built
    /\ LET xs == ActiveX(args, active2global(args))
           bbox_dim == [d \in Axes(args) |-> 2 * args.kernel[d].s * args.max_window_ratio]
       IN /\ Len(xs) > 0
          /\ Len(cl_info) > Len(grid_cluster(xs, bbox_dim))
          /\ \E q \in 1..Len(cl_info) : \E d \in Axes(args) :
                (cl_info[q].z_num[d] - 1) * Step(args, d) > bbox_dim[d]

BadConfig(a) ==
    \/ \E d \in Axes(a) : a.start[d] > a.stop[d]
    \/ \E d \in Axes(a) : a.start[d] = a.stop[d] /\ a.num[d] # 1
    \/ \E d \in Axes(a) : a.kernel[d].s <= 0
    \/ a.max_cluster_size <= 0
    \/ a.max_window_ratio < 3

\* C8 -- Configuration errors: with a malformed lattice, a non-positive kernel
\* support, max_cluster_size <= 0 or max_window_ratio < 3, construction fails:
\* no operator is produced and no partition is built.
ConfigErrors ==
    (phase # "new" /\ BadConfig(args)) =>
        /\ phase = "failed"
        /\ cl_info = <<>>
        /\ ~res_apply.valid /\ ~res_adjoint.valid

ConfigErrorsWitness ==
    /\ phase = "failed"
    /\ \E d \in Axes(args) : args.start[d] = args.stop[d] /\ args.num[d] # 1
    /\ \A d \in Axes(args) : args.kernel[d].s > 0
    /\ args.max_cluster_size > 0 /\ args.max_window_ratio >= 3

\* C9 -- Lattice invariant: a constructed operator's lattice has, on every
\* axis, start <= stop, num >= 1, and num = 1 exactly when start = stop.
LatticeInvariant ==
    Built =>
        \A d \in Axes(args) :
            /\ args.start[d] <= args.stop[d]
            /\ args.num[d] >= 1
            /\ (args.num[d] = 1) <=> (args.start[d] = args.stop[d])

NoneActive(a) ==
    \A m \in 1..NPoints(a) :
        \E d \in Axes(a) :
            \/ a.x[m][d] < a.start[d] - a.kernel[d].s
            \/ a.x[m][d] > a.stop[d] + a.kernel[d].s

\* C10 -- Empty active set: with no active point the cluster map is empty, no
\* cluster task ever exists, the accumulation lock is never taken, and apply
\* returns an all-zero lattice-shaped buffer.
EmptyActiveSet ==
    (Built /\ NoneActive(args)) =>
        /\ cl_info = <<>>
        /\ pc = <<>> /\ queue = <<>> /\ loc = <<>> /\ order = <<>>
        /\ lock = 0
        /\ phase = "apply" => out = Zeros(Nodes(args))
        /\ res_apply.valid =>
              res_apply.out = Zeros(Nodes(args)) /\ res_apply.order = <<>>

EmptyActiveSetWitness ==
    /\ NoneActive(args)
    /\ NPoints(args) >= 1
    /\ res_apply.valid
    /\ \A m \in 1..NPoints(args) : res_apply.in[m] # 0

\* C11 -- Backend mismatch: a chunked apply whose weights are chunked along the
\* point axis otherwise than x raises at once: no sub-operator is created, no
\* block is computed, and no result is ever produced from the mismatched input.
ChunkMismatchRaises ==
    (dask # <<>> /\ dask.call = "apply" /\ dask.in_chunks # env.x_chunks) =>
        /\ exc = "AssertionError"
        /\ phase = "ready"
        /\ dask.subops = 0
        /\ DOMAIN dask.parts = {}
        /\ ~res_apply.valid

ChunkMismatchRaisesWitness ==
    /\ dask # <<>> /\ dask.call = "apply"
    /\ dask.in_chunks # env.x_chunks
    /\ SumSeq(dask.in_chunks) = SumSeq(env.x_chunks)
    /\ exc = "AssertionError"

WarningsOf(call) == Cardinality({i \in DOMAIN warned : warned[i].call = call})

CastContract(res, call) ==
    res.valid =>
        /\ exc = "none"
        /\ DOMAIN res.in = DOMAIN res.raw
        /\ \A i \in DOMAIN res.in :
              /\ Representable(res.in[i], env.dtype)
              /\ Abs(res.in[i] - res.raw[i]) <= 1
        /\ res.dtype = env.dtype => res.in = res.raw
        /\ WarningsOf(call) = IF res.dtype # env.dtype /\ env.enable_warnings THEN 1 ELSE 0
        /\ \A i \in DOMAIN warned : warned[i].category = "PrecisionWarning"

Chunked(call) == dask # <<>> /\ dask.call = call

\* C13 -- Chunked spread equals in-memory spread: with kernels that vanish outside
\* their support, whatever the chunk layouts of the points and of the lattice, the
\* lattice assembled from the sums over the point chunks of the sub-operators'
\* outputs equals apply of the in-memory operator on all points and the whole lattice.
ChunkedSpread ==
    (Chunked("apply") /\ res_apply.valid /\ \A d \in Axes(args) : Compact(args.kernel[d])) =>
        res_apply.out = apply(args, _build_info(args), res_apply.in)

ChunkedSpreadWitness ==
    /\ Chunked("apply") /\ res_apply.valid
    /\ Len(env.x_chunks) >= 2
    /\ \E d \in Axes(args) : Len(dask.z_chunks[d]) >= 2
    /\ \E c \in ZBlocks(dask.z_chunks) : \E idx \in DOMAIN dask.parts[<<1, c>>].v :
          dask.parts[<<1, c>>].v[idx] # 0 /\ dask.parts[<<2, c>>].v[idx] # 0

\* C14 -- Chunked interpolate equals in-memory interpolate: with kernels that
\* vanish outside their support, whatever the chunk layouts, the weights obtained
\* by summing over the lattice chunks the sub-operators' adjoint outputs equal
\* adjoint of the in-memory operator on the whole lattice.
ChunkedInterpolate ==
    (Chunked("adjoint") /\ res_adjoint.valid
        /\ \A d \in Axes(args) : Compact(args.kernel[d])) =>
        res_adjoint.out = adjoint(args, _build_info(args), res_adjoint.in)

\* a point gathers non-zero partial sums from two lattice chunks
ChunkedInterpolateWitness ==
    /\ Chunked("adjoint") /\ res_adjoint.valid
    /\ \E i \in 1..Len(env.x_chunks) : \E c1, c2 \in ZBlocks(dask.z_chunks) :
          /\ c1 # c2
          /\ \E j \in DOMAIN dask.parts[<<i, c1>>].v :
                dask.parts[<<i, c1>>].v[j] # 0 /\ dask.parts[<<i, c2>>].v[j] # 0

\* the value the call returns when it runs alone
Alone(cs) ==
    IF cs.op = "apply" THEN apply(args, cl_info, cs.arr) ELSE adjoint(args, cl_info, cs.arr)

\* a zero buffer after the first k of the caller's own writes
RECURSIVE OwnWrites(_, _)
OwnWrites(cs, k) ==
    IF k = 0
    THEN IF cs.op = "apply" THEN Zeros(Nodes(args)) ELSE Zeros(1..NPoints(args))
    ELSE LET cl == cl_info[cs.writes[k]]
         IN IF cs.op = "apply"
            THEN Writeback(OwnWrites(cs, k - 1), cl, SpreadLocal(args, cl, cs.arr))
            ELSE Assign(OwnWrites(cs, k - 1), cl, InterpolateLocal(args, cl, cs.arr))

\* C15 -- Re-entrancy: with two calls running concurrently on one in-memory
\* operator, the calls have distinct output buffers and distinct locks, a lock is
\* only ever held by a task of the call that created it, every buffer holds
\* exactly what the tasks of its own call have written, and a call returns what it
\* returns when run alone.
Reentrant ==
    /\ \A c, o \in Callers :
          (c # o /\ calls[c].st # "idle" /\ calls[o].st # "idle") =>
              /\ calls[c].out_ref # calls[o].out_ref
              /\ (calls[c].op = "apply" /\ calls[o].op = "apply") =>
                    calls[c].lock_ref # calls[o].lock_ref
    /\ \A l \in DOMAIN heap.locks :
          heap.locks[l] # Free => calls[heap.locks[l][1]].lock_ref = l
    /\ \A c \in Callers :
          calls[c].st # "idle" =>
              heap.bufs[calls[c].out_ref] = OwnWrites(calls[c], Len(calls[c].writes))
    /\ \A c \in Callers :
          calls[c].st = "returned" => heap.bufs[calls[c].ret] = Alone(calls[c])

ReentrantWitness ==
    /\ Len(calls) = 2
    /\ \A c \in Callers : calls[c].st = "returned" /\ calls[c].op = "apply" /\ calls[c].mixed
    /\ Len(cl_info) = 2
    /\ heap.bufs[calls[1].ret] # heap.bufs[calls[2].ret]
    /\ calls[1].writes # calls[2].writes

\* C16 -- No partial results: a call that returns hands back a buffer into which
\* every cluster was accumulated (resp. written) exactly once; a call one of whose
\* tasks raised never returns a buffer: the exception reaches the caller.
NoPartialResults ==
    \A c \in Callers :
        /\ calls[c].st = "returned" =>
              /\ \A q \in Keys :
                    Cardinality({k \in DOMAIN calls[c].writes : calls[c].writes[k] = q}) = 1
              /\ \A q \in Keys : calls[c].pc[q] = "done"
              /\ heap.bufs[calls[c].ret] = Alone(calls[c])
        /\ (\E q \in DOMAIN calls[c].pc : calls[c].pc[q] = "raised") =>
              /\ calls[c].st \in {"running", "unwinding", "raised"}
              /\ calls[c].ret = 0
        /\ calls[c].st = "raised" =>
              /\ calls[c].exc = "TaskError" /\ calls[c].ret = 0
              /\ PoolRunning(calls[c]) = {} /\ calls[c].queue = <<>>

\* the call raised after one of its tasks had already written into the buffer
NoPartialResultsWitness ==
    \E c \in Callers :
        /\ calls[c].st = "raised"
        /\ calls[c].op = "apply"
        /\ Len(calls[c].writes) = 1
        /\ heap.bufs[calls[c].out_ref] # Zeros(Nodes(args))
        /\ heap.bufs[calls[c].out_ref] # Alone(calls[c])

\* the linear combination a f + b g
LinComb(a, b, f, g) == [e \in DOMAIN f |-> a * f[e] + b * g[e]]

\* the same operator with the other extreme of max_cluster_size: whole grid cells
\* when the points were split one by one, single points otherwise
Recluster(a) ==
    [a EXCEPT !.max_cluster_size = IF @ = 1 THEN NPoints(a) + 1 ELSE 1]

\* C17 -- Linearity: apply(a w1 + b w2) = a apply(w1) + b apply(w2), here with
\* a = 2, b = -3, w1 the input of the apply call that returned and w2 any other
\* input; with kernels that vanish outside their support the same holds when the
\* combination is spread by the operator clustered otherwise.
Linearity ==
    res_apply.valid =>
        \A w2 \in WInputs(args) \ {res_apply.in} :
            LET lin == LinComb(2, -3, res_apply.in, w2)
                rhs == LinComb(2, -3, res_apply.out, apply(args, cl_info, w2))
                re  == Recluster(args)
            IN /\ apply(args, cl_info, lin) = rhs
               /\ (\A d \in Axes(args) : Compact(args.kernel[d])) =>
                     apply(re, _build_info(re), lin) = rhs

LinearityWitness ==
    /\ res_apply.valid
    /\ Len(cl_info) >= 2
    /\ Len(_build_info(Recluster(args))) < Len(cl_info)
    /\ \A d \in Axes(args) : Compact(args.kernel[d])
    /\ \E n \in Nodes(args) : \E w2 \in WInputs(args) :
          /\ res_apply.out[n] # 0
          /\ apply(args, cl_info, w2)[n] # 0
          /\ w2 # res_apply.in

\* C18 -- Concrete scenario (values in units of 1/2): points 0.5 and 2.5, weights
\* [1, 1], triangular kernel of radius 1 on the lattice 0, 1, 2, 3, 4: apply
\* returns [0.5, 0.5, 0.5, 0.5, 0].
ConcreteScenario ==
    (res_apply.valid /\ args \in {Scenario(1), Scenario(2)}
        /\ res_apply.in = <<1, 1>>) =>
        res_apply.out = (<<0>> :> 1) @@ (<<1>> :> 1) @@ (<<2>> :> 1) @@ (<<3>> :> 1)
                            @@ (<<4>> :> 0)

ConcreteScenarioWitness ==
    /\ res_apply.valid
    /\ args = Scenario(1)
    /\ res_apply.in = <<1, 1>>
    /\ Len(cl_info) = 2
    /\ cl_info[2].z_anchor = <<1>>

\* C19 -- Degenerate single-node lattice: on an axis with num = 1 every cluster
\* window is index 0 with extent 1, the node is start, and with one point x
\* within the support of a one-axis single-node lattice apply(w) is the single
\* value w phi(start - x).
DegenerateLattice ==
    Built =>
        /\ \A d \in Axes(args) : args.num[d] = 1 =>
              /\ Node(args, d, 0) = args.start[d]
              /\ \A q \in 1..Len(cl_info) :
                    cl_info[q].z_anchor[d] = 0 /\ cl_info[q].z_num[d] = 1
        /\ (res_apply.valid /\ args.num = <<1>> /\ NPoints(args) = 1
                /\ Abs(args.start[1] - args.x[1][1]) <= args.kernel[1].s) =>
              /\ DOMAIN res_apply.out = {<<0>>}
              /\ res_apply.out[<<0>>]
                    = res_apply.in[1] * Phi(args.kernel[1], args.start[1] - args.x[1][1])

DegenerateLatticeWitness ==
    /\ res_apply.valid
    /\ args.num = <<1>> /\ NPoints(args) = 1
    /\ args.start = args.stop
    /\ args.x[1][1] # args.start[1]
    /\ Phi(args.kernel[1], args.start[1] - args.x[1][1])
          # Phi(args.kernel[1], args.x[1][1] - args.start[1])
    /\ res_apply.out[<<0>>] # 0

\* C20 (as claimed) -- asarray returns a two-dimensional array of N_1 ... N_D rows
\* and M columns, for every rank D.
DenseMatrixTwoDim ==
    res_asarray.valid =>
        res_asarray.shape = <<ProdSeq(args.num), NPoints(args)>>

\* the entries of the array agree with its shape
ShapeOK(A, shape) ==
    /\ \A n \in DOMAIN A : \A m \in DOMAIN A[n] :
          LET idx == n \o <<m - 1>>
          IN /\ Len(idx) = Len(shape)
             /\ \A k \in 1..Len(idx) : 0 <= idx[k] /\ idx[k] < shape[k]
    /\ SumOver(DOMAIN A, [n \in DOMAIN A |-> Cardinality(DOMAIN A[n])]) = ProdSeq(shape)

\* C20 (amended) -- asarray returns an array of D + 1 dimensions, of shape
\* (N_1, ..., N_D, M), one lattice axis after the other and the point axis last; it
\* is two-dimensional, N_1 rows by M columns, exactly when D = 1.
DenseMatrixShape ==
    res_asarray.valid =>
        /\ res_asarray.shape = args.num \o <<NPoints(args)>>
        /\ Len(res_asarray.shape) = Rank(args) + 1
        /\ ShapeOK(res_asarray.out, res_asarray.shape)
        /\ (Len(res_asarray.shape) = 2) <=> (Rank(args) = 1)

DenseMatrixShapeWitness ==
    /\ res_asarray.valid
    /\ Rank(args) = 2
    /\ \A d \in Axes(args) : args.num[d] >= 2
    /\ NPoints(args) = 2
    /\ Len(res_asarray.shape) = 3

\* the buffer after the sub-lattices of the clusters of ord were added to it
PartialSum(a, info, w, ord) ==
    [n \in Nodes(a) |->
        SumSeq([k \in 1..Len(ord) |->
                  IF InRoi(info[ord[k]], n)
                  THEN SpreadLocal(a, info[ord[k]], w)[ToLocal(info[ord[k]], n)] ELSE 0])]

\* tasks inside the with block of _spread
InCritical == {q \in DOMAIN pc : pc[q] \in {"locked", "read", "added"}}

\* C21 -- Mutual exclusion on accumulation: during an in-memory apply call at most
\* one cluster task is inside the add of its sub-lattice into the shared buffer,
\* it is the holder of the lock, and no update is lost: the buffer always is the
\* sum of the sub-lattices added so far.  Kernel evaluation and local spread
\* happen outside the lock.
MutualExclusion ==
    phase = "apply" =>
        /\ Cardinality(InCritical) <= 1
        /\ \A q \in InCritical : lock = q
        /\ \A q \in DOMAIN pc : pc[q] \in {"start", "computed"} => lock # q
        /\ out = PartialSum(args, cl_info, arr, order)

MutualExclusionWitness ==
    /\ phase = "apply"
    /\ \E q1, q2 \in DOMAIN pc :
          /\ q1 # q2
          /\ pc[q1] = "read" /\ pc[q2] = "computed"
          /\ Overlap(cl_info[q1], cl_info[q2])
          /\ \E n \in Nodes(args) :
                /\ InRoi(cl_info[q1], n) /\ InRoi(cl_info[q2], n)
                /\ loc[q1][n] # 0
                /\ loc[q2][ToLocal(cl_info[q2], n)] # 0

\* output slots written by the tasks of the keys in ord
Written(info, ord) == UNION {Members(info[ord[k]]) : k \in 1..Len(ord)}

\* C22 -- Lock-free interpolate is race-free: during an in-memory adjoint call no
\* output slot is written by two different cluster tasks, every slot written so
\* far holds its final value whatever the interleaving, and the slots of points
\* in no cluster keep the value zero, also in the array returned.
RaceFreeInterpolate ==
    /\ phase = "adjoint" =>
          /\ \A q1, q2 \in DOMAIN pc :
                q1 # q2 => Members(cl_info[q1]) \cap Members(cl_info[q2]) = {}
          /\ \A m \in 1..NPoints(args) :
                out[m] = IF m \in Written(cl_info, order)
                         THEN adjoint(args, cl_info, arr)[m] ELSE 0
    /\ res_adjoint.valid =>
          /\ res_adjoint.out = adjoint(args, cl_info, res_adjoint.in)
          /\ \A m \in 1..NPoints(args) :
                m \notin Written(cl_info, [q \in 1..Len(cl_info) |-> q]) =>
                    res_adjoint.out[m] = 0

RaceFreeInterpolateWitness ==
    /\ phase = "adjoint"
    /\ Len(cl_info) = 2
    /\ order = <<2>>
    /\ pc[1] = "computed"
    /\ out[cl_info[2].x_idx[1]] # 0
    /\ loc[1][1] # 0

\* C23 -- Deadlock freedom and termination of dispatch: under fair scheduling
\* every in-memory apply call eventually returns or raises, a lock is held only by
\* a task inside the with block (it is released when the add fails, too), and no
\* task waits for the lock forever.
DispatchTerminates ==
    /\ [](\A l \in DOMAIN heap.locks :
            heap.locks[l] # Free =>
                calls[heap.locks[l][1]].pc[heap.locks[l][2]] \in {"locked", "added"})
    /\ (calls[1].op = "apply" /\ calls[1].st = "running")
          ~> (calls[1].st \in {"returned", "raised"})
    /\ \A q \in 1..2 :
          (calls[1].op = "apply" /\ q \in DOMAIN calls[1].pc /\ calls[1].pc[q] = "computed")
              ~> (q \in DOMAIN calls[1].pc
                    /\ calls[1].pc[q] \in {"locked", "done", "raised"})

\* the call raised: the add of one task failed inside the with block while the
\* other task was waiting for the lock, which it then got
DispatchTerminatesWitness ==
    \E c \in Callers :
        /\ calls[c].op = "apply"
        /\ calls[c].st = "raised"
        /\ Len(calls[c].pc) = 2
        /\ \E q1, q2 \in DOMAIN calls[c].pc :
              /\ calls[c].pc[q1] = "raised" /\ calls[c].loc[q1] # <<>>
              /\ calls[c].pc[q2] = "done" /\ calls[c].writes = <<q2>>
        /\ heap.locks[calls[c].lock_ref] = Free

\* number of positions of the sequence s that hold e
Count(s, e) == Cardinality({k \in DOMAIN s : s[k] = e})

\* C24 -- Bounded parallelism: during an in-memory apply or adjoint call with
\* workers = k at most k cluster tasks are in progress at any instant, and every
\* cluster key of the cached map is submitted once and executed once: it is either
\* still queued (once), in progress, or finished with its result written once;
\* the call returns after every key was executed exactly once.
BoundedParallelism ==
    /\ phase \in {"apply", "adjoint"} =>
          /\ Cardinality(Running) <= args.workers
          /\ DOMAIN pc = Keys
          /\ \A q \in Keys :
                /\ Count(queue, q) = (IF pc[q] = "queued" THEN 1 ELSE 0)
                /\ Count(order, q) = (IF pc[q] \in {"added", "done"} THEN 1 ELSE 0)
    /\ res_apply.valid => \A q \in Keys : Count(res_apply.order, q) = 1
    /\ res_adjoint.valid => \A q \in Keys : Count(res_adjoint.order, q) = 1

BoundedParallelismWitness ==
    /\ phase = "apply"
    /\ args.workers = 1
    /\ Len(cl_info) = 2
    /\ pc[1] = "computed"
    /\ queue = <<2>>
    /\ res_adjoint.valid

\* the clusters of the grid bucketing pass (lines 502-504), before bisection
GridClusters(a) ==
    LET xs == ActiveX(a, active2global(a))
    IN IF Len(xs) = 0 THEN <<>>
       ELSE grid_cluster(xs, [d \in Axes(a) |-> (2 * Support(a.kernel[d])) * a.max_window_ratio])

\* splits performed by the bisection pass of _build_info, counted up to twice the
\* number of active points
SplitsOf(a) ==
    LET xs == ActiveX(a, active2global(a))
    IN BisectSplits(xs, GridClusters(a), a.max_cluster_size, 2 * Len(xs))

\* extent of the cluster's support-padded bounding box on axis d
PaddedExtent(a, cl, d) ==
    SetMax({a.x[m][d] : m \in Members(cl)}) - SetMin({a.x[m][d] : m \in Members(cl)})
        + 2 * Support(a.kernel[d])

PartitionReadOnly ==
    /\ [](Built => cl_info = _build_info(args))
    /\ [][/\ args' = args
          /\ phase # "new" => cl_info' = cl_info]_vars

\* both calls were made, tasks of two clusters ran in the pool
PartitionReadOnlyWitness ==
    /\ res_apply.valid /\ res_adjoint.valid
    /\ phase = "ready"
    /\ Len(cl_info) = 2
    /\ res_apply.order # res_adjoint.order
    /\ cl_info = _build_info(args)

\* the closed intervals [lo1, hi1] and [lo2, hi2] have a common point
Intersects(lo1, hi1, lo2, hi2) == lo1 <= hi2 /\ lo2 <= hi1

\* the point is a member of some cluster of the cached map
Clustered(m) == \E q \in 1..Len(cl_info) : m \in Members(cl_info[q])

\* support box of point m on axis d: [x - s, x + s]
BoxLo(a, m, d) == a.x[m][d] - Support(a.kernel[d])
BoxHi(a, m, d) == a.x[m][d] + Support(a.kernel[d])

\* C27 (as claimed) -- Culling criterion: a point is discarded exactly when on
\* some axis its support box [x - s, x + s] does not intersect the padded
\* interval [alpha - s, beta + s]; every other point is in a cluster.
CullingPadded ==
    (Built /\ env.backend = "NUMPY") =>
        \A m \in 1..NPoints(args) :
            Clustered(m) <=>
                \A d \in Axes(args) :
                    Intersects(BoxLo(args, m, d), BoxHi(args, m, d),
                               args.start[d] - Support(args.kernel[d]),
                               args.stop[d] + Support(args.kernel[d]))

\* C27 (amended) -- Culling criterion: a point is discarded exactly when on some
\* axis its support box [x - s, x + s] does not intersect the lattice interval
\* [alpha, beta], i.e. when x < alpha - s or x > beta + s; every other point
\* (points at distance exactly s included) is in a cluster.
CullingCriterion ==
    (Built /\ env.backend = "NUMPY") =>
        \A m \in 1..NPoints(args) :
            Clustered(m) <=>
                \A d \in Axes(args) :
                    Intersects(BoxLo(args, m, d), BoxHi(args, m, d),
                               args.start[d], args.stop[d])

\* one point discarded although its box meets the padded interval, another kept
\* at distance exactly s from the lattice
CullingCriterionWitness ==
    /\ Built
    /\ res_apply.valid
    /\ \E m \in 1..NPoints(args) :
          /\ ~Clustered(m)
          /\ \A d \in Axes(args) :
                Intersects(BoxLo(args, m, d), BoxHi(args, m, d),
                           args.start[d] - Support(args.kernel[d]),
                           args.stop[d] + Support(args.kernel[d]))
    /\ \E m \in 1..NPoints(args) :
          /\ Clustered(m)
          /\ \E d \in Axes(args) : BoxHi(args, m, d) = args.start[d]

\* a / b (b > 0) rounded to the nearest integer, a tie to the even one
RoundDiv(a, b) ==
    LET q == FloorDiv(2 * a + b, 2 * b)
    IN IF (2 * a + b) % (2 * b) = 0 /\ q % 2 = 1 THEN q - 1 ELSE q

Clip(v, lo, hi) == Max2(lo, Min2(v, hi))

\* lower-left / upper-right corner of the support boxes of the cluster's points,
\* relative to alpha and scaled by N - 1: the index is this number over
\* beta - alpha
ScaledLL(a, cl, d) ==
    (SetMin({a.x[m][d] : m \in Members(cl)}) - Support(a.kernel[d]) - a.start[d])
        * (a.num[d] - 1)

ScaledUR(a, cl, d) ==
    (SetMax({a.x[m][d] : m \in Members(cl)}) + Support(a.kernel[d]) - a.start[d])
        * (a.num[d] - 1)

\* C28 (as claimed) -- Tight window indices: on every axis with N > 1 the window
\* of a cluster starts at round((min x - s - alpha) / step) and ends at
\* round((max x + s - alpha) / step), each clipped to [0, N - 1].
WindowRounded ==
    (Built /\ env.backend = "NUMPY") =>
        \A q \in 1..Len(cl_info) : \A d \in Axes(args) :
            args.num[d] > 1 =>
                LET cl == cl_info[q]
                    den == args.stop[d] - args.start[d]
                IN /\ cl.z_anchor[d]
                        = Clip(RoundDiv(ScaledLL(args, cl, d), den), 0, args.num[d] - 1)
                   /\ cl.z_anchor[d] + cl.z_num[d] - 1
                        = Clip(RoundDiv(ScaledUR(args, cl, d), den), 0, args.num[d] - 1)

\* C28 (amended) -- Window indices: on every axis with N > 1 the window of a
\* cluster starts at floor((min x - s - alpha) / step) and ends at
\* ceil((max x + s - alpha) / step), each clipped to [0, N - 1]: it contains the
\* window the rounding gives and possibly one more node at either end.
WindowFloorCeil ==
    (Built /\ env.backend = "NUMPY") =>
        \A q \in 1..Len(cl_info) : \A d \in Axes(args) :
            args.num[d] > 1 =>
                LET cl == cl_info[q]
                    den == args.stop[d] - args.start[d]
                    first == cl.z_anchor[d]
                    last == cl.z_anchor[d] + cl.z_num[d] - 1
                IN /\ first = Clip(FloorDiv(ScaledLL(args, cl, d), den), 0, args.num[d] - 1)
                   /\ last = Clip(CeilDiv(ScaledUR(args, cl, d), den), 0, args.num[d] - 1)
                   /\ first <= Clip(RoundDiv(ScaledLL(args, cl, d), den), 0, args.num[d] - 1)
                   /\ Clip(RoundDiv(ScaledUR(args, cl, d), den), 0, args.num[d] - 1) <= last
                   /\ Clip(RoundDiv(ScaledLL(args, cl, d), den), 0, args.num[d] - 1) - first <= 1
                   /\ last - Clip(RoundDiv(ScaledUR(args, cl, d), den), 0, args.num[d] - 1) <= 1

\* a window whose last index, not clipped, is the rounded-up one where rounding
\* to nearest (no tie) gives one less
WindowFloorCeilWitness ==
    /\ Built
    /\ res_apply.valid
    /\ \E q \in 1..Len(cl_info) : \E d \in Axes(args) :
          /\ args.num[d] > 1
          /\ LET den == args.stop[d] - args.start[d]
                 ur == ScaledUR(args, cl_info[q], d)
             IN /\ (2 * ur) % den # 0
                /\ CeilDiv(ur, den) <= args.num[d] - 1
                /\ RoundDiv(ur, den) = CeilDiv(ur, den) - 1
                /\ cl_info[q].z_anchor[d] + cl_info[q].z_num[d] - 1 = CeilDiv(ur, den)

\* 0-based index of the first non-zero entry of x, one past that of the last one;
\* Len(x) for both when x is all zero
NonZero(x) == {i \in 1..Len(x) : x[i] # 0}

FirstNonZero(x) == IF NonZero(x) = {} THEN Len(x) ELSE SetMin(NonZero(x)) - 1

PastLastNonZero(x) == IF NonZero(x) = {} THEN Len(x) ELSE SetMax(NonZero(x))

\* all cells of the window
Window(S) == Box([d \in DOMAIN S |-> 0], [d \in DOMAIN S |-> S[d] - 1])

\* C29 -- Early-exit bounds are lossless: find_bounds returns (a, b) with a the
\* index of the first non-zero entry and b one past the index of the last one
\* (a = b = N when all entries are zero); every window cell f_spread and
\* f_interpolate skip has joint weight zero, and their results are those of a
\* traversal of the full window.
LosslessBounds ==
    /\ phase = "bounds" =>
          \A d \in DOMAIN arr :
              loc[d] = <<FirstNonZero(arr[d]), PastLastNonZero(arr[d])>>
    /\ phase \in {"spread", "interpolate"} =>
          \A idx \in Window(RowShape(arr)) \ Visited(<<arr>>, 1, RowShape(arr)) :
              JointWeight(<<arr>>, 1, idx) = 0
    /\ phase = "spread" =>
          out = [idx \in Window(RowShape(arr)) |-> JointWeight(<<arr>>, 1, idx) * 3]
    /\ phase = "interpolate" =>
          out = <<SumOver(Window(RowShape(arr)),
                          [idx \in Window(RowShape(arr)) |->
                              JointWeight(<<arr>>, 1, idx) * RowValues(RowShape(arr))[idx]])>>

\* a two-axis window with skipped cells on both axes, a zero entry inside the
\* bounds of the first axis, and a non-zero result
LosslessBoundsWitness ==
    /\ phase = "spread"
    /\ Len(arr) = 2
    /\ arr[1][1] = 0 /\ arr[2][Len(arr[2])] = 0
    /\ Visited(<<arr>>, 1, RowShape(arr)) # {}
    /\ Visited(<<arr>>, 1, RowShape(arr)) # Window(RowShape(arr))
    /\ \E idx \in Window(RowShape(arr)) : out[idx] # 0

\* global multi-indices addressed by the slices roi of a cluster (lines 609-615)
RoiCells(cl) ==
    Box(cl.z_anchor, [d \in DOMAIN cl.z_anchor |-> cl.z_anchor[d] + cl.z_num[d] - 1])

\* C30 -- Windows stay inside the lattice: for every cluster of the cached map and
\* every axis d, 0 <= z_anchor_d, z_num_d >= 1 and z_anchor_d + z_num_d <= N_d:
\* the slice of the global buffer a cluster reads or accumulates into is not
\* empty and addresses lattice nodes only.
WindowsInsideLattice ==
    (Built /\ env.backend = "NUMPY") =>
        \A q \in 1..Len(cl_info) :
            /\ \A d \in Axes(args) :
                  /\ 0 <= cl_info[q].z_anchor[d]
                  /\ cl_info[q].z_num[d] >= 1
                  /\ cl_info[q].z_anchor[d] + cl_info[q].z_num[d] <= args.num[d]
            /\ RoiCells(cl_info[q]) # {}
            /\ RoiCells(cl_info[q]) \subseteq Nodes(args)

\* a cluster whose support box sticks out of the lattice at both ends: both
\* indices were clipped and the window is the whole axis
WindowsInsideLatticeWitness ==
    /\ Built
    /\ res_apply.valid
    /\ \E q \in 1..Len(cl_info) : \E d \in Axes(args) :
          /\ args.num[d] > 1
          /\ ScaledLL(args, cl_info[q], d) < 0
          /\ ScaledUR(args, cl_info[q], d) > (args.num[d] - 1) * (args.stop[d] - args.start[d])
          /\ cl_info[q].z_anchor[d] = 0
          /\ cl_info[q].z_num[d] = args.num[d]
    /\ \E n \in Nodes(args) : res_apply.out[n] # 0

====
